---- MODULE Spec2Model ----
(***************************************************************************)
(* Reconciliation engine of the bet tracker: the two batch importers of    *)
(* backend/import_unified.py (OddsJam = source A, Pikkit = source B), the  *)
(* mappers of backend/data_converters.py, the authority table of           *)
(* backend/sportsbook_config.py and the verification actions of            *)
(* backend/routes/unified_bets.py, over the table unified_bets.            *)
(*                                                                         *)
(* Representation                                                          *)
(*   - a nullable DATETIME is NULL (<<>>) or <<m>>, m in minutes;          *)
(*   - a text made by the composer is a sequence of characters, so that    *)
(*     strip() and ' '.join() are computed and not assumed;                *)
(*   - sportsbook names and status strings are TLA+ strings; strip() and   *)
(*     upper() on them are tables over the names the model draws;          *)
(*   - money is an integer number of tenths of a cent before rounding and  *)
(*     an integer number of cents after round_currency;                    *)
(*   - a decimal odds cell of an export is an integer number of            *)
(*     hundredths; the converters work on the binary64 value read from it. *)
(*   - db is the committed content of unified_bets, sess what the import   *)
(*     run's open transaction sees (committed rows and its own writes).    *)
(***************************************************************************)
EXTENDS Integers, Sequences, FiniteSets, TLC

VARIABLES db, sess, nextId, run, last, report, resp, db0, csv, plan

vars == <<db, sess, nextId, run, last, report, resp, db0, csv, plan>>

\* ---------------------------------------------------------------- bounds
MaxId == 2

MaxRows == 2

MaxVerifyRows == 1

BulkRows == 101

MaxBadRows == 3

\* Decimal odds up to MaxDecimal hundredths, American odds up to MaxAmerican.
MaxDecimal == 300

MaxAmerican == 400

\* ------------------------------------------------------------- constants
CommitEvery == 100

MaxBulkVerify == 100

EasternToCentral == 60

GmtToCentral == 360

NULL == <<>>

None == [op |-> "none"]

\* ------------------------------------------------- sportsbook authority
PIKKIT_SPORTSBOOKS ==
    { "BetMGM", "Caesars Sportsbook", "Caesars", "Draftkings Sportsbook",
      "DraftKings", "ESPN BET", "ESPNBet", "Fanatics", "Fanduel Sportsbook",
      "FanDuel", "Fliff", "Novig", "Onyx", "Onyx Odds", "PrizePicks",
      "ProphetX", "Prophet X", "Rebet", "Thrillzz", "Underdog Fantasy" }

ODDSJAM_SPORTSBOOKS ==
    { "BetNow", "BetOnline", "BetUS", "BookMaker", "Bovada", "Everygame",
      "MyBookie", "Sportzino", "Xbet", "bet105", "betwhale" }

SPORTSBOOK_ALIASES ==
    [ s \in { "Prophet X", "ProphetX", "Draftkings Sportsbook", "DraftKings",
              "Fanduel Sportsbook", "FanDuel", "ESPN BET", "ESPNBet",
              "Onyx Odds", "Onyx", "Caesars Sportsbook", "Caesars" } |->
        CASE s = "Prophet X" -> "ProphetX"
          [] s = "ProphetX" -> "Prophet X"
          [] s = "Draftkings Sportsbook" -> "DraftKings"
          [] s = "DraftKings" -> "Draftkings Sportsbook"
          [] s = "Fanduel Sportsbook" -> "FanDuel"
          [] s = "FanDuel" -> "Fanduel Sportsbook"
          [] s = "ESPN BET" -> "ESPNBet"
          [] s = "ESPNBet" -> "ESPN BET"
          [] s = "Onyx Odds" -> "Onyx"
          [] s = "Onyx" -> "Onyx Odds"
          [] s = "Caesars Sportsbook" -> "Caesars"
          [] s = "Caesars" -> "Caesars Sportsbook" ]

\* str.strip() on the sportsbook names the model draws: the padded spellings
\* lose their surrounding blanks, every other name is returned as it is.
StripName(s) ==
    CASE s = "FanDuel " -> "FanDuel"
      [] s = " Bovada" -> "Bovada"
      [] s = " ProphetX " -> "ProphetX"
      [] OTHER -> s

get_normalized_sportsbook_name(name) ==
    IF name = "" THEN ""
    ELSE LET normalized == StripName(name)
         IN  IF normalized \in DOMAIN SPORTSBOOK_ALIASES
             THEN SPORTSBOOK_ALIASES[normalized]
             ELSE normalized

determine_data_source(name) ==
    IF name = "" THEN "oddsjam"
    ELSE LET normalized_name == get_normalized_sportsbook_name(name)
         IN  IF name \in PIKKIT_SPORTSBOOKS \/ normalized_name \in PIKKIT_SPORTSBOOKS
             THEN "pikkit"
             ELSE "oddsjam"

should_use_pikkit_data(sportsbook) == sportsbook \in PIKKIT_SPORTSBOOKS

\* ------------------------------------------------------------ converters
\* str.upper() on the status strings the model draws.
Upper(s) ==
    CASE s = "won" -> "WON"
      [] s = "Won" -> "WON"
      [] s = "lost" -> "LOST"
      [] s = "pending" -> "PENDING"
      [] s = "refunded" -> "REFUNDED"
      [] s = "Lost" -> "LOST"
      [] s = "Pending" -> "PENDING"
      [] s = "Refunded" -> "REFUNDED"
      [] s = "settled_win" -> "SETTLED_WIN"
      [] s = "settled_loss" -> "SETTLED_LOSS"
      [] s = "Settled_Push" -> "SETTLED_PUSH"
      [] s = "settled_void" -> "SETTLED_VOID"
      [] s = "void" -> "VOID"
      [] s = "placed" -> "PLACED"
      [] s = "bogus" -> "BOGUS"
      [] OTHER -> s

\* normalize_status without status.upper().
normalize_status_CaseSensitive(status, source) ==
    IF status = "" THEN "pending"
    ELSE IF source = "oddsjam"
         THEN CASE status = "PENDING" -> "pending"
                [] status = "WON" -> "won"
                [] status = "LOST" -> "lost"
                [] status = "REFUNDED" -> "refunded"
                [] OTHER -> "pending"
         ELSE IF source = "pikkit"
         THEN CASE status = "PLACED" -> "pending"
                [] status = "SETTLED_WIN" -> "won"
                [] status = "SETTLED_LOSS" -> "lost"
                [] status = "SETTLED_PUSH" -> "refunded"
                [] status = "SETTLED_VOID" -> "refunded"
                [] OTHER -> "pending"
         ELSE "pending"

normalize_status(status, source) ==
    IF status = "" THEN "pending"
    ELSE LET st == Upper(status)
         IN  IF source = "oddsjam"
             THEN CASE st = "PENDING" -> "pending"
                    [] st = "WON" -> "won"
                    [] st = "LOST" -> "lost"
                    [] st = "REFUNDED" -> "refunded"
                    [] OTHER -> "pending"
             ELSE IF source = "pikkit"
             THEN CASE st = "PLACED" -> "pending"
                    [] st = "SETTLED_WIN" -> "won"
                    [] st = "SETTLED_LOSS" -> "lost"
                    [] st = "SETTLED_PUSH" -> "refunded"
                    [] st = "SETTLED_VOID" -> "refunded"
                    [] OTHER -> "pending"
             ELSE "pending"

\* str.lower() on the bet types the model draws.
Lower(s) ==
    CASE s = "Parlay" -> "parlay"
      [] s = "PARLAY" -> "parlay"
      [] s = "Normal" -> "normal"
      [] OTHER -> s

normalize_bet_type(bet_type, source) ==
    IF bet_type = "" THEN "straight"
    ELSE IF Lower(bet_type) = "parlay" THEN "parlay" ELSE "straight"

\* Decimal(str(amount)).quantize(Decimal('0.01'), ROUND_HALF_UP): amount in
\* tenths of a cent, result in cents, halves rounded away from zero.
round_currency(amount) ==
    IF amount >= 0 THEN (amount + 5) \div 10
    ELSE 0 - ((0 - amount + 5) \div 10)

\* ------------------------------------------------- Python float arithmetic
\* float() values are IEEE-754 binary64 numbers and /, *, - round to the
\* nearest one, ties to even.  The arithmetic is carried out exactly on
\* natural numbers of any size: little-endian sequences of digits to Base.
Base == 32768

RECURSIVE BNorm(_)
BNorm(a) ==
    IF a = <<>> THEN <<>>
    ELSE IF a[Len(a)] = 0 THEN BNorm(SubSeq(a, 1, Len(a) - 1)) ELSE a

RECURSIVE BFromInt(_)
BFromInt(n) == IF n = 0 THEN <<>> ELSE <<n % Base>> \o BFromInt(n \div Base)

RECURSIVE BToInt(_)
BToInt(a) == IF a = <<>> THEN 0 ELSE a[1] + Base * BToInt(Tail(a))

RECURSIVE BAddC(_, _, _)
BAddC(a, b, c) ==
    IF a = <<>> /\ b = <<>> THEN (IF c = 0 THEN <<>> ELSE <<c>>)
    ELSE LET x == IF a = <<>> THEN 0 ELSE a[1]
             y == IF b = <<>> THEN 0 ELSE b[1]
             t == x + y + c
         IN  <<t % Base>> \o BAddC(IF a = <<>> THEN <<>> ELSE Tail(a),
                                    IF b = <<>> THEN <<>> ELSE Tail(b),
                                    t \div Base)

BAdd(a, b) == BAddC(a, b, 0)

RECURSIVE BSubC(_, _, _)
BSubC(a, b, c) ==
    IF a = <<>> THEN <<>>
    ELSE LET y == IF b = <<>> THEN 0 ELSE b[1]
             t == a[1] - y - c
         IN  <<(t + Base) % Base>> \o BSubC(Tail(a),
                                            IF b = <<>> THEN <<>> ELSE Tail(b),
                                            IF t < 0 THEN 1 ELSE 0)

BSub(a, b) == BNorm(BSubC(a, b, 0))

RECURSIVE BCmpFrom(_, _, _)
BCmpFrom(a, b, i) ==
    IF i = 0 THEN 0
    ELSE IF a[i] < b[i] THEN 0 - 1
    ELSE IF a[i] > b[i] THEN 1
    ELSE BCmpFrom(a, b, i - 1)

BCmp(a, b) ==
    IF Len(a) < Len(b) THEN 0 - 1
    ELSE IF Len(a) > Len(b) THEN 1
    ELSE BCmpFrom(a, b, Len(a))

RECURSIVE BMulC(_, _, _)
BMulC(a, k, c) ==
    IF a = <<>> THEN BFromInt(c)
    ELSE LET t == a[1] * k + c
         IN  <<t % Base>> \o BMulC(Tail(a), k, t \div Base)

BMulSmall(a, k) == IF k = 0 THEN <<>> ELSE BMulC(a, k, 0)

\* floor(a / k), most significant limb first.
RECURSIVE BDivC(_, _, _, _)
BDivC(a, k, i, r) ==
    IF i = 0 THEN <<>>
    ELSE LET t == r * Base + a[i]
         IN  BDivC(a, k, i - 1, t % k) \o <<t \div k>>

BDivSmall(a, k) == BNorm(BDivC(a, k, Len(a), 0))

RECURSIVE Pow2(_)
Pow2(n) == IF n = 0 THEN 1 ELSE 2 * Pow2(n - 1)

RECURSIVE IntBitLen(_)
IntBitLen(n) == IF n = 0 THEN 0 ELSE 1 + IntBitLen(n \div 2)

BBitLen(a) == IF a = <<>> THEN 0 ELSE 15 * (Len(a) - 1) + IntBitLen(a[Len(a)])

Zeros(n) == [i \in 1..n |-> 0]

BShl(a, n) ==
    IF a = <<>> THEN <<>> ELSE Zeros(n \div 15) \o BMulSmall(a, Pow2(n % 15))

BShr(a, n) ==
    IF n \div 15 >= Len(a) THEN <<>>
    ELSE BDivSmall(SubSeq(a, (n \div 15) + 1, Len(a)), Pow2(n % 15))

BBit(a, i) ==
    IF (i \div 15) + 1 > Len(a) THEN 0
    ELSE (a[(i \div 15) + 1] \div Pow2(i % 15)) % 2

\* Binary long division of n by d: the bits hi..lo of n are brought down
\* into the remainder r, one at a time from the highest, and the quotient q
\* gains one bit for each.  The range is halved so that the evaluation
\* nests no deeper than the logarithm of its length.
RECURSIVE BDivBits(_, _, _, _, _, _)
BDivBits(n, d, hi, lo, q, r) ==
    IF hi = lo
    THEN LET r2 == BAddC(BMulSmall(r, 2), <<>>, BBit(n, hi))
             q2 == BMulSmall(q, 2)
         IN  IF BCmp(r2, d) >= 0
             THEN [q |-> BAddC(q2, <<>>, 1), r |-> BSub(r2, d)]
             ELSE [q |-> q2, r |-> r2]
    ELSE LET mid == (hi + lo + 1) \div 2
             upper == BDivBits(n, d, hi, mid, q, r)
         IN  IF Len(upper.q) >= 0 /\ Len(upper.r) >= 0
             THEN BDivBits(n, d, mid - 1, lo, upper.q, upper.r)
             ELSE upper

RECURSIVE BModC(_, _, _, _)
BModC(a, k, i, r) == IF i = 0 THEN r ELSE BModC(a, k, i - 1, (r * Base + a[i]) % k)

BModSmall(a, k) == BModC(a, k, Len(a), 0)

\* Quotient and remainder of n by d # 0.
BDivMod(n, d) ==
    IF Len(d) = 1
    THEN [q |-> BDivSmall(n, d[1]), r |-> BFromInt(BModSmall(n, d[1]))]
    ELSE BDivBits(n, d, BBitLen(n) - 1, 0, <<>>, <<>>)

\* Binary64 values.
\* A double is [s, m, e]: the number s * m * 2^e with s in {-1, 0, 1}.
FZero == [s |-> 0, m |-> <<>>, e |-> 0]

\* The same number with the low zero limbs of m moved into e.
RECURSIVE FNorm(_)
FNorm(x) ==
    IF x.m # <<>> /\ x.m[1] = 0
    THEN FNorm([s |-> x.s, m |-> Tail(x.m), e |-> x.e + 15])
    ELSE x

\* The double nearest to s * (q + f) * 2^e, where q has sh + 53 bits,
\* sh >= 1, and the fraction f in [0, 1) is 0 exactly when rest is <<>>:
\* the low sh bits of q are rounded off, ties to even.
FRoundOff(s, q, rest, e, sh) ==
    LET mant == BShr(q, sh)
        low  == q[1] % Pow2(sh)
        half == Pow2(sh - 1)
        up   == \/ low > half
                \/ low = half /\ (rest # <<>> \/ mant[1] % 2 = 1)
    IN  FNorm([ s |-> s, m |-> IF up THEN BAdd(mant, <<1>>) ELSE mant,
                e |-> e + sh ])

FRoundQuotient(s, dm, e) == FRoundOff(s, dm.q, dm.r, e, BBitLen(dm.q) - 53)

\* n and d are scaled so that the quotient has 55 or 56 bits.
FRoundScaled(s, n, d, e, k) ==
    FRoundQuotient(s, BDivMod(IF k >= 0 THEN BShl(n, k) ELSE n,
                              IF k >= 0 THEN d ELSE BShl(d, 0 - k)), e - k)

\* The double nearest to s * (n / d) * 2^e.
FRound(s, n, d, e) ==
    IF n = <<>> THEN FZero
    ELSE FRoundScaled(s, n, d, e, 55 - (BBitLen(n) - BBitLen(d)))

FOfInt(n) ==
    IF n = 0 THEN FZero
    ELSE [s |-> IF n < 0 THEN 0 - 1 ELSE 1, m |-> BFromInt(IF n < 0 THEN 0 - n ELSE n), e |-> 0]

\* p / q for integers p, q, q # 0.
FDivInt(p, q) ==
    FRound(IF (p < 0) = (q < 0) THEN 1 ELSE 0 - 1,
           BFromInt(IF p < 0 THEN 0 - p ELSE p),
           BFromInt(IF q < 0 THEN 0 - q ELSE q), 0)

\* (s * xm + cs * cm) * 2^e for signs s, cs # 0, rounded.
FSum(s, xm, cs, cm, e) ==
    IF s # cs /\ BCmp(xm, cm) = 0 THEN FZero
    ELSE FRound(IF s = cs \/ BCmp(xm, cm) > 0 THEN s ELSE cs,
                IF s = cs THEN BAdd(xm, cm)
                ELSE IF BCmp(xm, cm) > 0 THEN BSub(xm, cm) ELSE BSub(cm, xm),
                <<1>>, e)

FAddAt(x, c, e) ==
    FSum(x.s, BShl(x.m, x.e - e), IF c < 0 THEN 0 - 1 ELSE 1,
         BShl(BFromInt(IF c < 0 THEN 0 - c ELSE c), 0 - e), e)

\* x + c for a double x and an integer c: the exact sum, then rounded.
FAddInt(x, c) ==
    IF x.s = 0 THEN FOfInt(c)
    ELSE IF c = 0 THEN x
    ELSE FAddAt(x, c, IF x.e > 0 THEN 0 ELSE x.e)

FMulInt(x, c) ==
    IF x.s = 0 \/ c = 0 THEN FZero
    ELSE FRound(IF c < 0 THEN 0 - x.s ELSE x.s,
                BMulSmall(x.m, IF c < 0 THEN 0 - c ELSE c), <<1>>, x.e)

\* c / x for an integer c and a double x # 0.
FIntDiv(c, x) ==
    IF c = 0 THEN FZero
    ELSE FRound(IF c < 0 THEN 0 - x.s ELSE x.s,
                BFromInt(IF c < 0 THEN 0 - c ELSE c), x.m, 0 - x.e)

\* int(x): truncation toward zero.
FInt(x) ==
    IF x.s = 0 THEN 0
    ELSE x.s * BToInt(IF x.e >= 0 THEN BShl(x.m, x.e) ELSE BShr(x.m, 0 - x.e))

\* x >= c for an integer c > 0.
FGeInt(x, c) ==
    /\ x.s > 0
    /\ LET e == IF x.e > 0 THEN 0 ELSE x.e
       IN  BCmp(BShl(x.m, x.e - e), BShl(BFromInt(c), 0 - e)) >= 0

\* A Python number is a double; None and 0 are both false, and None is only
\* ever tested for its truth value.
PyNone == [s |-> 0, m |-> <<>>, e |-> 0, none |-> TRUE]

\* The double that pandas reads from the cell k/100 of an export.
PyFloat(k) == FDivInt(k, 100)

\* The result is [ok |-> TRUE, v |-> american] or [ok |-> FALSE] when the
\* division by (decimal_odds - 1) raises ZeroDivisionError; less_one is
\* decimal_odds - 1.
american_from_decimal(decimal_odds, less_one) ==
    IF FGeInt(decimal_odds, 2)
    THEN [ok |-> TRUE, v |-> FInt(FMulInt(less_one, 100))]
    ELSE IF less_one.s = 0 THEN [ok |-> FALSE, v |-> 0]
    ELSE [ok |-> TRUE, v |-> FInt(FIntDiv(0 - 100, less_one))]

decimal_to_american_odds(decimal_odds) ==
    IF decimal_odds.s <= 0 THEN [ok |-> TRUE, v |-> 0]
    ELSE american_from_decimal(decimal_odds, FAddInt(decimal_odds, 0 - 1))

\* american_to_decimal_odds without the returned stake (+ 1).
american_to_decimal_odds_ProfitOnly(american_odds) ==
    IF american_odds.s = 0 THEN [ok |-> TRUE, v |-> FZero]
    ELSE LET a == FInt(american_odds)
         IN  IF a > 0 THEN [ok |-> TRUE, v |-> FDivInt(a, 100)]
             ELSE IF a = 0 THEN [ok |-> FALSE, v |-> FZero]
             ELSE [ok |-> TRUE, v |-> FDivInt(100, 0 - a)]

\* The result is [ok |-> TRUE, v |-> decimal] or [ok |-> FALSE] when the
\* division by abs(int(american_odds)) raises ZeroDivisionError.
american_to_decimal_odds(american_odds) ==
    IF american_odds.s = 0 THEN [ok |-> TRUE, v |-> FZero]
    ELSE LET a == FInt(american_odds)
         IN  IF a > 0 THEN [ok |-> TRUE, v |-> FAddInt(FDivInt(a, 100), 1)]
             ELSE IF a = 0 THEN [ok |-> FALSE, v |-> FZero]
             ELSE [ok |-> TRUE, v |-> FAddInt(FDivInt(100, 0 - a), 1)]

\* The odds cells of the exports, in hundredths, and what
\* decimal_to_american_odds returns for each.
OddsCells == {0, 100, 180, 191, 200, 250}

AmericanOfCell == [k \in OddsCells |-> decimal_to_american_odds(PyFloat(k))]

\* A date string of an export: txt is "" (absent), "bad" (not in the format)
\* or "ok", and then t is the wall-clock minute it spells (seconds for
\* Pikkit).  Both parsers catch their own exception and return None.
parse_oddsjam_date(date_str) ==
    IF date_str.txt = "" THEN NULL
    ELSE IF date_str.txt = "bad" THEN NULL
    ELSE <<date_str.t - EasternToCentral>>

parse_pikkit_date(date_str) ==
    IF date_str.txt = "" THEN NULL
    ELSE IF date_str.txt = "bad" THEN NULL
    ELSE <<(date_str.t \div 60) - GmtToCentral>>

\* ------------------------------------------------------ bet-info composer
RECURSIVE StripLeft(_)
StripLeft(s) ==
    IF s = <<>> THEN <<>>
    ELSE IF Head(s) = " " THEN StripLeft(Tail(s)) ELSE s

RECURSIVE StripRight(_)
StripRight(s) ==
    IF s = <<>> THEN <<>>
    ELSE IF s[Len(s)] = " " THEN StripRight(SubSeq(s, 1, Len(s) - 1)) ELSE s

Strip(s) == StripRight(StripLeft(s))

RECURSIVE Join(_)
Join(parts) ==
    IF parts = <<>> THEN <<>>
    ELSE IF Len(parts) = 1 THEN parts[1]
    ELSE parts[1] \o <<" ">> \o Join(Tail(parts))

create_bet_info_from_oddsjam(bet_name, market_name, event_name) ==
    LET p1 == IF Strip(bet_name) # <<>> THEN <<Strip(bet_name)>> ELSE <<>>
        p2 == IF Strip(market_name) # <<>> THEN <<Strip(market_name)>> ELSE <<>>
        p3 == IF Strip(event_name) # <<>> THEN <<Strip(event_name)>> ELSE <<>>
    IN  Join(p1 \o p2 \o p3)

\* ---------------------------------------------------------------- mappers
\* A numeric cell of an export: a number, or a text that Decimal() rejects.
Amount(v) == [num |-> TRUE, v |-> v]

BadAmount == [num |-> FALSE, v |-> 0]

\* convert_oddsjam_to_unified: ok is FALSE when round_currency raises.
convert_oddsjam_to_unified(d, index) ==
    [ ok   |-> d.stake.num /\ d.bet_profit.num,
      data |-> [ source          |-> "oddsjam",
                 original_bet_id |-> ToString(index),
                 sportsbook      |-> d.sportsbook,
                 bet_type        |-> normalize_bet_type(d.bet_type, "oddsjam"),
                 status          |-> normalize_status(d.status, "oddsjam"),
                 odds            |-> d.odds,
                 clv             |-> d.clv,
                 stake           |-> round_currency(d.stake.v),
                 bet_profit      |-> round_currency(d.bet_profit.v),
                 time_placed     |-> parse_oddsjam_date(d.created_at),
                 time_settled    |-> parse_oddsjam_date(d.event_start_date),
                 bet_info        |-> create_bet_info_from_oddsjam(
                                         d.bet_name, d.market_name, d.event_name),
                 tags            |-> d.tags,
                 sport           |-> d.sport,
                 league          |-> d.league ] ]

\* convert_pikkit_to_unified: ok is FALSE when an odds conversion or
\* round_currency raises.
convert_pikkit_to_unified(d) ==
    LET o == AmericanOfCell[d.odds]
        c == AmericanOfCell[d.closing_line]
    IN  [ ok   |-> o.ok /\ c.ok /\ d.amount.num /\ d.profit.num,
          data |-> [ source          |-> "pikkit",
                     original_bet_id |-> d.bet_id,
                     sportsbook      |-> d.sportsbook,
                     bet_type        |-> normalize_bet_type(d.type, "pikkit"),
                     status          |-> normalize_status(d.status, "pikkit"),
                     odds            |-> o.v,
                     clv             |-> c.v,
                     stake           |-> round_currency(d.amount.v),
                     bet_profit      |-> round_currency(d.profit.v),
                     time_placed     |-> parse_pikkit_date(d.time_placed),
                     time_settled    |-> parse_pikkit_date(d.time_settled),
                     bet_info        |-> d.bet_info,
                     tags            |-> d.tags,
                     sport           |-> d.sports,
                     league          |-> d.leagues ] ]

\* ------------------------------------------------------- SQL statements
Abs(x) == IF x < 0 THEN 0 - x ELSE x

\* ABS(TIMESTAMPDIFF(MINUTE, a, b)) <= 1 for two non-null whole-minute
\* datetimes, or both null.
TimeMatches(stored, given) ==
    \/ stored = NULL /\ given = NULL
    \/ stored # NULL /\ given # NULL /\ Abs(given[1] - stored[1]) <= 1

\* Faulty variant of OddsjamMatches: the placement times compared for
\* equality, without the one-minute tolerance.
OddsjamMatches_ExactTime(view, u) ==
    { id \in DOMAIN view :
          /\ view[id].source = "oddsjam"
          /\ view[id].bet_info = u.bet_info
          /\ view[id].time_placed = u.time_placed }

\* Faulty variant of OddsjamMatches: the lookup sees the committed table
\* only, not the rows the running batch has written.
OddsjamMatches_CommittedOnly(view, u) ==
    { id \in DOMAIN view \cap DOMAIN db :
          /\ db[id].source = "oddsjam"
          /\ db[id].bet_info = u.bet_info
          /\ TimeMatches(db[id].time_placed, u.time_placed) }

\* SELECT id ... WHERE source = 'oddsjam' AND bet_info = ... LIMIT 1: the
\* ids the statement may return (no ORDER BY: any one of them).
OddsjamMatches(view, u) ==
    { id \in DOMAIN view :
          /\ view[id].source = "oddsjam"
          /\ view[id].bet_info = u.bet_info
          /\ TimeMatches(view[id].time_placed, u.time_placed) }

\* SELECT id ... WHERE source = 'pikkit' AND original_bet_id = :bet_id LIMIT 1
PikkitMatches(view, bet_id) ==
    { id \in DOMAIN view :
          view[id].source = "pikkit" /\ view[id].original_bet_id = bet_id }

\* Faulty variant of InsertBet: verified left to the column default FALSE.
InsertBet_DefaultVerified(view, id, u, verified) ==
    [ i \in DOMAIN view \cup {id} |->
        IF i = id
        THEN [ source |-> u.source, original_bet_id |-> u.original_bet_id,
               sportsbook |-> u.sportsbook, bet_type |-> u.bet_type,
               status |-> u.status, odds |-> u.odds, clv |-> u.clv,
               stake |-> u.stake, bet_profit |-> u.bet_profit,
               time_placed |-> u.time_placed, time_settled |-> u.time_settled,
               bet_info |-> u.bet_info, tags |-> u.tags, sport |-> u.sport,
               league |-> u.league, verified |-> FALSE ]
        ELSE view[i] ]

\* INSERT INTO unified_bets (...) VALUES (..., FALSE | TRUE)
InsertBet(view, id, u, verified) ==
    [ i \in DOMAIN view \cup {id} |->
        IF i = id
        THEN [ source |-> u.source, original_bet_id |-> u.original_bet_id,
               sportsbook |-> u.sportsbook, bet_type |-> u.bet_type,
               status |-> u.status, odds |-> u.odds, clv |-> u.clv,
               stake |-> u.stake, bet_profit |-> u.bet_profit,
               time_placed |-> u.time_placed, time_settled |-> u.time_settled,
               bet_info |-> u.bet_info, tags |-> u.tags, sport |-> u.sport,
               league |-> u.league, verified |-> verified ]
        ELSE view[i] ]

\* Faulty variant of UpdateOddsjamBet: time_placed is not left out of the
\* SET list, as in the Pikkit statement.
UpdateOddsjamBet_WritesTimePlaced(view, id, u) ==
    [ view EXCEPT ![id] =
        [ @ EXCEPT !.original_bet_id = u.original_bet_id,
                   !.sportsbook = u.sportsbook, !.bet_type = u.bet_type,
                   !.status = u.status, !.odds = u.odds, !.clv = u.clv,
                   !.stake = u.stake, !.bet_profit = u.bet_profit,
                   !.time_placed = u.time_placed,
                   !.time_settled = u.time_settled, !.tags = u.tags,
                   !.sport = u.sport, !.league = u.league ] ]

\* Faulty variant of UpdateOddsjamBet: the update also writes the insert's
\* verified = FALSE.
UpdateOddsjamBet_ResetsVerified(view, id, u) ==
    [ view EXCEPT ![id] =
        [ @ EXCEPT !.original_bet_id = u.original_bet_id,
                   !.sportsbook = u.sportsbook, !.bet_type = u.bet_type,
                   !.status = u.status, !.odds = u.odds, !.clv = u.clv,
                   !.stake = u.stake, !.bet_profit = u.bet_profit,
                   !.time_settled = u.time_settled, !.tags = u.tags,
                   !.sport = u.sport, !.league = u.league,
                   !.verified = FALSE ] ]

\* UPDATE unified_bets SET original_bet_id, sportsbook, ..., league WHERE id
UpdateOddsjamBet(view, id, u) ==
    [ view EXCEPT ![id] =
        [ @ EXCEPT !.original_bet_id = u.original_bet_id,
                   !.sportsbook = u.sportsbook, !.bet_type = u.bet_type,
                   !.status = u.status, !.odds = u.odds, !.clv = u.clv,
                   !.stake = u.stake, !.bet_profit = u.bet_profit,
                   !.time_settled = u.time_settled, !.tags = u.tags,
                   !.sport = u.sport, !.league = u.league ] ]

\* Faulty variant of UpdatePikkitBet: the record is rewritten with REPLACE
\* INTO, that is deleted and inserted again under the next free id.
UpdatePikkitBet_ReplaceInto(view, id, u) ==
    LET fresh == (CHOOSE m \in DOMAIN view : \A i \in DOMAIN view : i <= m) + 1
    IN  [ i \in (DOMAIN view \ {id}) \cup {fresh} |->
            IF i = fresh
            THEN [ view[id] EXCEPT
                     !.sportsbook = u.sportsbook, !.bet_type = u.bet_type,
                     !.status = u.status, !.odds = u.odds, !.clv = u.clv,
                     !.stake = u.stake, !.bet_profit = u.bet_profit,
                     !.time_placed = u.time_placed,
                     !.time_settled = u.time_settled, !.bet_info = u.bet_info,
                     !.tags = u.tags, !.sport = u.sport, !.league = u.league ]
            ELSE view[i] ]

\* Faulty variant of UpdatePikkitBet: status is missing from the SET list.
UpdatePikkitBet_SkipsStatus(view, id, u) ==
    [ view EXCEPT ![id] =
        [ @ EXCEPT !.sportsbook = u.sportsbook, !.bet_type = u.bet_type,
                   !.odds = u.odds, !.clv = u.clv,
                   !.stake = u.stake, !.bet_profit = u.bet_profit,
                   !.time_placed = u.time_placed,
                   !.time_settled = u.time_settled, !.bet_info = u.bet_info,
                   !.tags = u.tags, !.sport = u.sport, !.league = u.league ] ]

\* UPDATE unified_bets SET sportsbook, ..., time_placed, ..., bet_info, ...
UpdatePikkitBet(view, id, u) ==
    [ view EXCEPT ![id] =
        [ @ EXCEPT !.sportsbook = u.sportsbook, !.bet_type = u.bet_type,
                   !.status = u.status, !.odds = u.odds, !.clv = u.clv,
                   !.stake = u.stake, !.bet_profit = u.bet_profit,
                   !.time_placed = u.time_placed,
                   !.time_settled = u.time_settled, !.bet_info = u.bet_info,
                   !.tags = u.tags, !.sport = u.sport, !.league = u.league ] ]

\* result.rowcount of the UPDATE ... WHERE id: the rows the WHERE clause
\* matched (the MySQL dialects of SQLAlchemy connect with FOUND_ROWS), and
\* the statement also assigns updated_at_db = CURRENT_TIMESTAMP.
UpdateRowcount(view, id) == IF id \in DOMAIN view THEN 1 ELSE 0

\* Faulty variant of SetVerified: the UPDATE has no WHERE clause.
SetVerified_EveryRow(view, ids) ==
    [ i \in DOMAIN view |-> [view[i] EXCEPT !.verified = TRUE] ]

\* UPDATE unified_bets SET verified = TRUE WHERE id IN (...)
SetVerified(view, ids) ==
    [ i \in DOMAIN view |->
        IF i \in ids THEN [view[i] EXCEPT !.verified = TRUE] ELSE view[i] ]

\* ------------------------------------------------------- rows of exports
Vary(base, field, values) == { [base EXCEPT ![field] = v] : v \in values }

DateStr(t) == [txt |-> "ok", t |-> t]

NoDate == [txt |-> "", t |-> 0]

BadDate == [txt |-> "bad", t |-> 0]

BaseOddsjamRow ==
    [ sportsbook |-> "Bovada", sport |-> "basketball", league |-> "NBA",
      event_name |-> <<>>, bet_name |-> <<"A">>, market_name |-> <<"B">>,
      odds |-> 150, clv |-> 120, stake |-> Amount(10000),
      bet_profit |-> Amount(15000), status |-> "Won", bet_type |-> "Normal",
      created_at |-> DateStr(60), event_start_date |-> DateStr(600),
      tags |-> "" ]

\* The OddsJam rows of the sequential specification: the base row with its
\* placement time or its status changed (one wager re-exported, and wagers
\* with the same description placed minutes apart or with no time at all).
OddsjamRows ==
    Vary(BaseOddsjamRow, "created_at",
         {DateStr(60), DateStr(61), DateStr(62), NoDate, BadDate})
      \cup Vary(BaseOddsjamRow, "status", {"", "bogus"})
      \cup Vary(BaseOddsjamRow, "sportsbook", {"FanDuel"})

BasePikkitRow ==
    [ bet_id |-> "abc123", sportsbook |-> "FanDuel", type |-> "straight",
      status |-> "SETTLED_WIN", odds |-> 200, closing_line |-> 250, ev |-> 0,
      amount |-> Amount(10000), profit |-> Amount(10000),
      time_placed |-> DateStr(36000), time_settled |-> DateStr(72000),
      bet_info |-> <<"A">>, tags |-> "", sports |-> "basketball",
      leagues |-> "NBA" ]

\* The Pikkit rows of the sequential specification: two wagers, a row with
\* no bet id, and the base wager re-exported with another status.
PikkitRows ==
    Vary(BasePikkitRow, "bet_id", {"abc123", "xyz789", ""})
      \cup Vary(BasePikkitRow, "status", {"", "bogus", "placed"})
      \cup Vary(BasePikkitRow, "odds", {100})

\* Row k of the bulk export: BulkRows wagers with distinct bet ids.
BulkRow(k) == [BasePikkitRow EXCEPT !.bet_id = ToString(k)]

\* ------------------------------------------------------------ the state
IdleRun ==
    [ src |-> "idle", index |-> 0, n |-> 0, new_count |-> 0,
      updated_count |-> 0, skipped_count |-> 0, error_count |-> 0 ]

NoCsv == [src |-> "none", rows |-> <<>>]

Idle == run.src = "idle"

Init ==
    /\ db = <<>>
    /\ sess = <<>>
    /\ nextId = 1
    /\ run = IdleRun
    /\ last = None
    /\ report = None
    /\ resp = None
    /\ db0 = <<>>
    /\ csv = NoCsv
    /\ plan = [phase |-> 0, edit |-> 0, first |-> None]

\* ------------------------------------------------------------ import runs
\* pd.read_csv succeeded with n rows; the counters start at 0 and the
\* session's transaction starts on the committed table.
BeginRun(src, n) ==
    /\ Idle
    /\ run' = [IdleRun EXCEPT !.src = src, !.n = n]
    /\ sess' = db
    /\ db0' = db
    /\ last' = None
    /\ report' = None
    /\ resp' = None
    /\ UNCHANGED <<db, nextId>>

\* pd.read_csv raised: the failure report, nothing touched.
ReadCsvFails(src) ==
    /\ Idle
    /\ report' = [ op |-> "report", src |-> src, success |-> FALSE,
                   error |-> "read", rows |-> 0, new_count |-> 0,
                   updated_count |-> 0, skipped_count |-> 0, error_count |-> 0 ]
    /\ last' = None
    /\ resp' = None
    /\ db0' = db
    /\ UNCHANGED <<db, sess, nextId, run, csv, plan>>

\* The insert branch of both importers: INSERT, new_count += 1, and the
\* intermediate db.session.commit() every CommitEvery new rows; when that
\* commit raises, the except branch counts an error and the transaction
\* is gone.
InsertBranch(u, verified) ==
    LET id == nextId
        s1 == InsertBet(sess, id, u, verified)
        nc == run.new_count + 1
    IN  /\ nextId' = nextId + 1
        /\ IF nc % CommitEvery = 0
           THEN \/ /\ sess' = s1
                   /\ db' = s1
                   /\ run' = [run EXCEPT !.index = @ + 1, !.new_count = nc]
                   /\ last' = [op |-> "inserted", src |-> u.source, id |-> id]
                \/ /\ sess' = db
                   /\ db' = db
                   /\ run' = [run EXCEPT !.index = @ + 1, !.new_count = nc,
                                         !.error_count = @ + 1]
                   /\ last' = [op |-> "commit_failed", src |-> u.source, id |-> id]
           ELSE /\ sess' = s1
                /\ db' = db
                /\ run' = [run EXCEPT !.index = @ + 1, !.new_count = nc]
                /\ last' = [op |-> "inserted", src |-> u.source, id |-> id]

SkipBranch(src, sportsbook) ==
    /\ run' = [run EXCEPT !.index = @ + 1, !.skipped_count = @ + 1]
    /\ last' = [op |-> "skipped", src |-> src, sportsbook |-> sportsbook]
    /\ UNCHANGED <<db, sess, nextId>>

\* Faulty variant of ErrorBranch: the except branch also rolls the session
\* back, which discards the uncommitted rows that came before the bad one.
ErrorBranch_RollsBack(src) ==
    /\ run' = [run EXCEPT !.index = @ + 1, !.error_count = @ + 1]
    /\ last' = [op |-> "error", src |-> src]
    /\ sess' = db
    /\ UNCHANGED <<db, nextId>>

\* The except branch of the loop: error_count += 1 and continue.
ErrorBranch(src) ==
    /\ run' = [run EXCEPT !.index = @ + 1, !.error_count = @ + 1]
    /\ last' = [op |-> "error", src |-> src]
    /\ UNCHANGED <<db, sess, nextId>>

UpdateBranch(src, id, s1, u) ==
    /\ sess' = s1
    /\ run' = [run EXCEPT !.index = @ + 1,
                          !.updated_count = @ + UpdateRowcount(sess, id)]
    /\ last' = [ op |-> "updated", src |-> src, id |-> id, old |-> sess[id],
                 new |-> u ]
    /\ UNCHANGED <<db, nextId>>

\* One iteration of the loop of import_oddsjam_to_unified on the row.
ImportOddsjamRow(row) ==
    /\ run.src = "oddsjam"
    /\ run.index < run.n
    /\ LET conv == convert_oddsjam_to_unified(row, run.index)
           u == conv.data
           matches == OddsjamMatches(sess, u)
       IN  IF should_use_pikkit_data(row.sportsbook)
           THEN SkipBranch("oddsjam", row.sportsbook)
           ELSE IF ~conv.ok
           THEN ErrorBranch("oddsjam")
           ELSE IF matches = {}
           THEN InsertBranch(u, FALSE)
           ELSE \E id \in matches :
                    UpdateBranch("oddsjam", id, UpdateOddsjamBet(sess, id, u), u)
    /\ report' = None
    /\ resp' = None
    /\ UNCHANGED <<db0, csv, plan>>

\* One iteration of the loop of import_pikkit_to_unified on the row.
ImportPikkitRow(row) ==
    /\ run.src = "pikkit"
    /\ run.index < run.n
    /\ LET conv == convert_pikkit_to_unified(row)
           u == conv.data
           matches == PikkitMatches(sess, row.bet_id)
       IN  IF row.bet_id = ""
           THEN ErrorBranch("pikkit")
           ELSE IF ~conv.ok
           THEN ErrorBranch("pikkit")
           ELSE IF matches = {}
           THEN InsertBranch(u, TRUE)
           ELSE \E id \in matches :
                    UpdateBranch("pikkit", id, UpdatePikkitBet(sess, id, u), u)
    /\ report' = None
    /\ resp' = None
    /\ UNCHANGED <<db0, csv, plan>>

\* The final db.session.commit() succeeds: the report with the counters.
FinalCommit ==
    /\ ~Idle
    /\ run.index = run.n
    /\ db' = sess
    /\ sess' = sess
    /\ report' = [ op |-> "report", src |-> run.src, success |-> TRUE,
                   error |-> "", rows |-> run.n, new_count |-> run.new_count,
                   updated_count |-> run.updated_count,
                   skipped_count |-> run.skipped_count,
                   error_count |-> run.error_count ]
    /\ run' = IdleRun
    /\ last' = None
    /\ resp' = None
    /\ UNCHANGED <<nextId, db0, csv, plan>>

\* The final commit raises: rollback and the failure report.
CommitFails ==
    /\ ~Idle
    /\ run.index = run.n
    /\ sess' = db
    /\ report' = [ op |-> "report", src |-> run.src, success |-> FALSE,
                   error |-> "commit", rows |-> run.n, new_count |-> 0,
                   updated_count |-> 0, skipped_count |-> 0, error_count |-> 0 ]
    /\ run' = IdleRun
    /\ last' = None
    /\ resp' = None
    /\ UNCHANGED <<db, nextId, db0, csv, plan>>

\* The process is killed during the run: the open transaction is rolled
\* back by the server, nothing is reported.
Kill ==
    /\ ~Idle
    /\ sess' = db
    /\ report' = [op |-> "killed", src |-> run.src]
    /\ run' = IdleRun
    /\ last' = None
    /\ resp' = None
    /\ UNCHANGED <<db, nextId, db0, csv, plan>>

\* ---------------------------------------------------- verification actions
\* What a verification request leaves alone.
VerifyFrame ==
    /\ last' = None
    /\ report' = None
    /\ db0' = db
    /\ UNCHANGED <<nextId, run, csv, plan>>

\* Faulty variant of verify_bet: the check of the source is missing.
verify_bet_NoSourceCheck(bet_id, commit_ok) ==
    /\ Idle
    /\ IF bet_id \notin DOMAIN db
       THEN /\ resp' = [ op |-> "verify_bet", ids |-> {bet_id}, code |-> 404,
                         verified_bet_ids |-> {} ]
            /\ UNCHANGED <<db, sess>>
       ELSE IF db[bet_id].verified
       THEN /\ resp' = [ op |-> "verify_bet", ids |-> {bet_id}, code |-> 200,
                         verified_bet_ids |-> {bet_id} ]
            /\ UNCHANGED <<db, sess>>
       ELSE IF commit_ok
       THEN /\ db' = SetVerified(db, {bet_id})
            /\ sess' = db'
            /\ resp' = [ op |-> "verify_bet", ids |-> {bet_id}, code |-> 200,
                         verified_bet_ids |-> {bet_id} ]
       ELSE /\ resp' = [ op |-> "verify_bet", ids |-> {bet_id}, code |-> 500,
                         verified_bet_ids |-> {} ]
            /\ UNCHANGED <<db, sess>>
    /\ VerifyFrame

\* PUT /verify-bet/<bet_id>.  commit_ok: whether db.session.commit() returns.
verify_bet(bet_id, commit_ok) ==
    /\ Idle
    /\ IF bet_id \notin DOMAIN db
       THEN /\ resp' = [ op |-> "verify_bet", ids |-> {bet_id}, code |-> 404,
                         verified_bet_ids |-> {} ]
            /\ UNCHANGED <<db, sess>>
       ELSE IF db[bet_id].source # "oddsjam"
       THEN /\ resp' = [ op |-> "verify_bet", ids |-> {bet_id}, code |-> 400,
                         verified_bet_ids |-> {} ]
            /\ UNCHANGED <<db, sess>>
       ELSE IF db[bet_id].verified
       THEN /\ resp' = [ op |-> "verify_bet", ids |-> {bet_id}, code |-> 200,
                         verified_bet_ids |-> {bet_id} ]
            /\ UNCHANGED <<db, sess>>
       ELSE IF commit_ok
       THEN /\ db' = SetVerified(db, {bet_id})
            /\ sess' = db'
            /\ resp' = [ op |-> "verify_bet", ids |-> {bet_id}, code |-> 200,
                         verified_bet_ids |-> {bet_id} ]
       ELSE /\ resp' = [ op |-> "verify_bet", ids |-> {bet_id}, code |-> 500,
                         verified_bet_ids |-> {} ]
            /\ UNCHANGED <<db, sess>>
    /\ VerifyFrame

\* PUT /verify-multiple with the JSON list bet_ids.
verify_multiple_bets(bet_ids, commit_ok) ==
    /\ Idle
    /\ LET eligible_ids == { id \in bet_ids \cap DOMAIN db :
                                 db[id].source = "oddsjam" /\ ~db[id].verified }
       IN  IF bet_ids = {} \/ Cardinality(bet_ids) > MaxBulkVerify
           THEN /\ resp' = [ op |-> "verify_multiple", ids |-> bet_ids,
                             code |-> 400, verified_bet_ids |-> {} ]
                /\ UNCHANGED <<db, sess>>
           ELSE IF eligible_ids = {}
           THEN /\ resp' = [ op |-> "verify_multiple", ids |-> bet_ids,
                             code |-> 404, verified_bet_ids |-> {} ]
                /\ UNCHANGED <<db, sess>>
           ELSE IF commit_ok
           THEN /\ db' = SetVerified(db, eligible_ids)
                /\ sess' = db'
                /\ resp' = [ op |-> "verify_multiple", ids |-> bet_ids,
                             code |-> 200, verified_bet_ids |-> eligible_ids ]
           ELSE /\ resp' = [ op |-> "verify_multiple", ids |-> bet_ids,
                             code |-> 500, verified_bet_ids |-> {} ]
                /\ UNCHANGED <<db, sess>>
    /\ VerifyFrame

\* Faulty variant of get_unverified_bets: the condition on verified is
\* missing from the WHERE clause.
get_unverified_bets_IgnoresVerified(view) ==
    { id \in DOMAIN view :
          /\ view[id].source = "oddsjam"
          /\ view[id].status \in {"won", "lost", "refunded"} }

\* GET /unverified-bets without filters: the ids of the items of all pages.
get_unverified_bets(view) ==
    { id \in DOMAIN view :
          /\ view[id].source = "oddsjam"
          /\ ~view[id].verified
          /\ view[id].status \in {"won", "lost", "refunded"} }

GetUnverifiedBets ==
    /\ Idle
    /\ resp' = [ op |-> "get_unverified_bets", code |-> 200,
                 items |-> get_unverified_bets(db) ]
    /\ UNCHANGED <<db, sess>>
    /\ VerifyFrame

\* ------------------------------------------------- sequential operation
\* Any sequence of import runs of either source, one at a time; the rows of
\* an export are drawn as the run reads them.
StartImport ==
    /\ \E src \in {"oddsjam", "pikkit"}, n \in 0..MaxRows : BeginRun(src, n)
    /\ UNCHANGED <<csv, plan>>

ReadFails == \E src \in {"oddsjam", "pikkit"} : ReadCsvFails(src)

OddsjamRow ==
    /\ \E row \in OddsjamRows : ImportOddsjamRow(row)
    /\ nextId' <= MaxId + 1

PikkitRow ==
    /\ \E row \in PikkitRows : ImportPikkitRow(row)
    /\ nextId' <= MaxId + 1

Next ==
    \/ StartImport
    \/ ReadFails
    \/ OddsjamRow
    \/ PikkitRow
    \/ FinalCommit
    \/ CommitFails
    \/ Kill

Spec == Init /\ [][Next]_vars

\* ------------------------------------- imports and verification requests
\* Import runs and verification requests in any order, one at a time.  The
\* exports hold the base wager of each source, re-exported with another
\* status, and a second OddsJam wager.
VerifyOddsjamRows ==
    Vary(BaseOddsjamRow, "status", {"Won", ""})
      \cup Vary(BaseOddsjamRow, "created_at", {DateStr(62)})

VerifyPikkitRows == Vary(BasePikkitRow, "status", {"SETTLED_WIN", "placed"})

VerifyOddsjamRow ==
    /\ \E row \in VerifyOddsjamRows : ImportOddsjamRow(row)
    /\ nextId' <= MaxId + 1

VerifyPikkitRow ==
    /\ \E row \in VerifyPikkitRows : ImportPikkitRow(row)
    /\ nextId' <= MaxId + 1

VerifyBet ==
    \E bet_id \in 1..MaxId, commit_ok \in BOOLEAN : verify_bet(bet_id, commit_ok)

VerifyMultiple ==
    \E bet_ids \in SUBSET (1..MaxId), commit_ok \in BOOLEAN :
        verify_multiple_bets(bet_ids, commit_ok)

StartVerifyImport ==
    /\ \E src \in {"oddsjam", "pikkit"}, n \in 0..MaxVerifyRows : BeginRun(src, n)
    /\ UNCHANGED <<csv, plan>>

NextVerify ==
    \/ StartVerifyImport
    \/ VerifyOddsjamRow
    \/ VerifyPikkitRow
    \/ FinalCommit
    \/ CommitFails
    \/ Kill
    \/ VerifyBet
    \/ VerifyMultiple
    \/ GetUnverifiedBets

SpecVerify == Init /\ [][NextVerify]_vars

\* ----------------------------------------------- the authority filtering
\* Import runs over exports whose rows differ in the sportsbook name: names
\* of both authority sets, alias spellings, names with surrounding blanks.
AuthorityOddsjamRows ==
    Vary(BaseOddsjamRow, "sportsbook",
         {"Bovada", " Bovada", "FanDuel", "Fanduel Sportsbook", "FanDuel ",
          " ProphetX ", "Prophet X", ""})

AuthorityPikkitRows ==
    Vary(BasePikkitRow, "sportsbook",
         {"FanDuel", "Fanduel Sportsbook", "Prophet X", "Bovada", " Bovada"})
      \cup { [BasePikkitRow EXCEPT !.bet_id = "xyz789", !.sportsbook = sb] :
                 sb \in {"FanDuel", "Bovada"} }

AuthorityOddsjamRow ==
    /\ \E row \in AuthorityOddsjamRows : ImportOddsjamRow(row)
    /\ nextId' <= MaxId + 1

AuthorityPikkitRow ==
    /\ \E row \in AuthorityPikkitRows : ImportPikkitRow(row)
    /\ nextId' <= MaxId + 1

NextAuthority ==
    \/ StartImport
    \/ AuthorityOddsjamRow
    \/ AuthorityPikkitRow
    \/ FinalCommit
    \/ CommitFails
    \/ Kill

SpecAuthority == Init /\ [][NextAuthority]_vars

\* ------------------------------------------- re-importing an export file
\* One export file (csv) imported into the empty table, then imported again,
\* unchanged or with the stake of one row corrected in between.
\* plan.phase: 1 until the second run starts, then 2; plan.edit: the row
\* that was corrected (0: none); plan.first: the first run's report.
ReimportOddsjamRows ==
    Vary(BaseOddsjamRow, "created_at", {DateStr(60), DateStr(62), DateStr(64)})
      \cup Vary(BaseOddsjamRow, "sportsbook", {"FanDuel"})

ReimportPikkitRows == Vary(BasePikkitRow, "bet_id", {"abc123", "xyz789", "", "k3"})

Stakes == {Amount(10000), Amount(20000)}

SeqsUpTo(S, n) == UNION { [1..k -> S] : k \in 1..n }

Exports ==
    { [src |-> "oddsjam", rows |-> r] : r \in SeqsUpTo(ReimportOddsjamRows, MaxRows) }
      \cup
    { [src |-> "pikkit", rows |-> r] : r \in SeqsUpTo(ReimportPikkitRows, MaxRows) }

InitReimport ==
    /\ db = <<>>
    /\ sess = <<>>
    /\ nextId = 1
    /\ run = IdleRun
    /\ last = None
    /\ report = None
    /\ resp = None
    /\ db0 = <<>>
    /\ csv \in Exports
    /\ plan = [phase |-> 1, edit |-> 0, first |-> None]

StartFirst ==
    /\ plan.phase = 1
    /\ report = None
    /\ BeginRun(csv.src, Len(csv.rows))
    /\ UNCHANGED <<csv, plan>>

\* The export is corrected upstream: row i carries another stake.
EditCsv ==
    /\ Idle
    /\ plan.phase = 1
    /\ plan.edit = 0
    /\ report.op = "report"
    /\ report.success
    /\ \E i \in 1..Len(csv.rows), v \in Stakes :
          IF csv.src = "oddsjam"
          THEN /\ csv.rows[i].stake # v
               /\ csv' = [csv EXCEPT !.rows[i].stake = v]
               /\ plan' = [plan EXCEPT !.edit = i]
          ELSE /\ csv.rows[i].amount # v
               /\ csv' = [csv EXCEPT !.rows[i].amount = v]
               /\ plan' = [plan EXCEPT !.edit = i]
    /\ UNCHANGED <<db, sess, nextId, run, last, report, resp, db0>>

StartSecond ==
    /\ plan.phase = 1
    /\ report.op = "report"
    /\ report.success
    /\ plan' = [plan EXCEPT !.phase = 2, !.first = report]
    /\ BeginRun(csv.src, Len(csv.rows))
    /\ UNCHANGED csv

\* The run reads the next row of the file.
CsvRow ==
    /\ ~Idle
    /\ run.index < run.n
    /\ IF run.src = "oddsjam"
       THEN ImportOddsjamRow(csv.rows[run.index + 1])
       ELSE ImportPikkitRow(csv.rows[run.index + 1])

NextReimport ==
    \/ StartFirst
    \/ EditCsv
    \/ StartSecond
    \/ CsvRow
    \/ FinalCommit
    \/ CommitFails
    \/ Kill

SpecReimport == InitReimport /\ [][NextReimport]_vars

\* ------------------------------------------------------- a bulk export
\* One Pikkit run over an export of BulkRows new wagers.
StartBulk ==
    /\ nextId = 1
    /\ report = None
    /\ BeginRun("pikkit", BulkRows)
    /\ UNCHANGED <<csv, plan>>

BulkRowStep == ImportPikkitRow(BulkRow(run.index + 1))

NextBulk ==
    \/ StartBulk
    \/ BulkRowStep
    \/ FinalCommit
    \/ CommitFails
    \/ Kill

SpecBulk == Init /\ [][NextBulk]_vars

\* ----------------------------------------------- exports with bad rows
\* Import runs over exports that hold rows the loop cannot process (an
\* amount that is not a number, decimal odds 1.0, no bet id) between rows
\* that insert or update a wager.
BadOddsjamRows ==
    Vary(BaseOddsjamRow, "status", {"Won", ""})
      \cup Vary(BaseOddsjamRow, "stake", {BadAmount})

BadPikkitRows ==
    Vary(BasePikkitRow, "status", {"SETTLED_WIN", "placed"})
      \cup Vary(BasePikkitRow, "bet_id", {""})
      \cup Vary(BasePikkitRow, "odds", {100})
      \cup Vary(BasePikkitRow, "amount", {BadAmount})

StartBadRows ==
    /\ \E src \in {"oddsjam", "pikkit"}, n \in 0..MaxBadRows : BeginRun(src, n)
    /\ UNCHANGED <<csv, plan>>

BadOddsjamRow ==
    /\ \E row \in BadOddsjamRows : ImportOddsjamRow(row)
    /\ nextId' <= MaxId + 1

BadPikkitRow ==
    /\ \E row \in BadPikkitRows : ImportPikkitRow(row)
    /\ nextId' <= MaxId + 1

NextBadRows ==
    \/ StartBadRows
    \/ BadOddsjamRow
    \/ BadPikkitRow
    \/ FinalCommit
    \/ CommitFails
    \/ Kill

SpecBadRows == Init /\ [][NextBadRows]_vars

\* ---------------------------------------- exports with unparseable dates
\* Import runs over exports in which every row has a placement or a
\* settlement date that is not in the source's date format.
BadDateOddsjamRows ==
    { [BaseOddsjamRow EXCEPT !.created_at = c, !.event_start_date = e, !.status = st] :
          c \in {DateStr(60), BadDate}, e \in {DateStr(600), BadDate},
          st \in {"Won", ""} }
      \ Vary(BaseOddsjamRow, "status", {"Won", ""})

BadDatePikkitRows ==
    { [BasePikkitRow EXCEPT !.time_placed = p, !.time_settled = t, !.bet_id = b] :
          p \in {DateStr(36000), BadDate}, t \in {DateStr(72000), BadDate},
          b \in {"abc123", "xyz789"} }
      \ Vary(BasePikkitRow, "bet_id", {"abc123", "xyz789"})

BadDateOddsjamRow ==
    /\ \E row \in BadDateOddsjamRows : ImportOddsjamRow(row)
    /\ nextId' <= MaxId + 1

BadDatePikkitRow ==
    /\ \E row \in BadDatePikkitRows : ImportPikkitRow(row)
    /\ nextId' <= MaxId + 1

NextBadDates ==
    \/ StartImport
    \/ BadDateOddsjamRow
    \/ BadDatePikkitRow
    \/ FinalCommit
    \/ CommitFails
    \/ Kill

SpecBadDates == Init /\ [][NextBadDates]_vars

\* ------------------------------------------------ the converters alone
\* One call of a converter of data_converters.py: last is the call, with
\* its argument, and then what the call returned, or that it raised.
\* An odds argument is None or the number k (hundredths for decimal odds);
\* a status argument is None or the string s.
Number(k) == [none |-> FALSE, k |-> k]

NoNumber == [none |-> TRUE, k |-> 0]

DecimalArgs == {NoNumber} \cup { Number(k) : k \in (0 - 2)..MaxDecimal }

AmericanArgs == {NoNumber} \cup { Number(a) : a \in (0 - MaxAmerican)..MaxAmerican }

RoundTripArgs ==
    { Number(a) : a \in ((0 - MaxAmerican)..(0 - 100)) \cup (100..MaxAmerican) }

StatusStrings ==
    { "pending", "Pending", "PENDING", "won", "Won", "WON", "lost", "Lost",
      "LOST", "refunded", "Refunded", "REFUNDED", "PLACED", "placed",
      "SETTLED_WIN", "settled_win", "SETTLED_LOSS", "settled_loss",
      "SETTLED_PUSH", "Settled_Push", "SETTLED_VOID", "settled_void",
      "void", "bogus", "" }

StatusArgs ==
    { [none |-> n, s |-> st, source |-> src] :
          n \in {FALSE}, st \in StatusStrings, src \in {"oddsjam", "pikkit"} }
      \cup { [none |-> TRUE, s |-> "", source |-> src] : src \in {"oddsjam", "pikkit"} }

\* The source-B row of the specification's scenario.
ScenarioPikkitRow ==
    [BasePikkitRow EXCEPT !.odds = 191, !.closing_line = 180,
                          !.amount = Amount(10000), !.profit = Amount(9100)]

Call(fn, arg) == [op |-> "call", fn |-> fn, arg |-> arg]

Calls ==
    { Call("decimal_to_american_odds", v) : v \in DecimalArgs }
      \cup { Call("american_to_decimal_odds", v) : v \in AmericanArgs }
      \cup { Call("round_trip", v) : v \in RoundTripArgs }
      \cup { Call("normalize_status", v) : v \in StatusArgs }
      \cup { Call("convert_pikkit_to_unified", ScenarioPikkitRow) }

InitConverters ==
    /\ db = <<>>
    /\ sess = <<>>
    /\ nextId = 1
    /\ run = IdleRun
    /\ last \in Calls
    /\ report = None
    /\ resp = None
    /\ db0 = <<>>
    /\ csv = NoCsv
    /\ plan = [phase |-> 0, edit |-> 0, first |-> None]

\* The call of last ends: it returned res, or it raised.
Ends(r) ==
    /\ last' = [ op |-> IF r.ok THEN "returned" ELSE "raised", fn |-> last.fn,
                 arg |-> last.arg, res |-> r.v ]
    /\ UNCHANGED <<db, sess, nextId, run, report, resp, db0, csv, plan>>

Calling(fn) == last.op = "call" /\ last.fn = fn

\* The Python value of a decimal odds argument, of an integer argument.
DecimalValue(v) == IF v.none THEN PyNone ELSE PyFloat(v.k)

IntValue(v) == IF v.none THEN PyNone ELSE FOfInt(v.k)

CallDecimalToAmerican ==
    /\ Calling("decimal_to_american_odds")
    /\ Ends(decimal_to_american_odds(DecimalValue(last.arg)))

CallAmericanToDecimal ==
    /\ Calling("american_to_decimal_odds")
    /\ Ends(american_to_decimal_odds(IntValue(last.arg)))

\* decimal_to_american_odds(american_to_decimal_odds(a)).
RoundTrip(d) == IF d.ok THEN decimal_to_american_odds(d.v) ELSE [ok |-> FALSE, v |-> 0]

CallRoundTrip ==
    /\ Calling("round_trip")
    /\ Ends(RoundTrip(american_to_decimal_odds(IntValue(last.arg))))

\* None and '' are both false in "if not status".
CallNormalizeStatus ==
    /\ Calling("normalize_status")
    /\ Ends([ok |-> TRUE, v |-> normalize_status(last.arg.s, last.arg.source)])

CallConvertPikkit ==
    /\ Calling("convert_pikkit_to_unified")
    /\ LET conv == convert_pikkit_to_unified(last.arg)
       IN  Ends([ok |-> conv.ok, v |-> conv.data])

NextConverters ==
    \/ CallDecimalToAmerican
    \/ CallAmericanToDecimal
    \/ CallRoundTrip
    \/ CallNormalizeStatus
    \/ CallConvertPikkit

SpecConverters == InitConverters /\ [][NextConverters]_vars

\* ------------------------------------------------------------ EV analysis
\* routes/bets.py, get_ev_analysis over the positive-EV bets of the table
\* bets: odds and clv are INTEGER columns (American odds), stake and
\* bet_profit NUMERIC(10,2), here in cents.
MaxEvOdds == 104
MaxEvBets == 2

RECURSIVE BMul(_, _)
BMul(a, b) ==
    IF b = <<>> THEN <<>>
    ELSE BNorm(BAdd(BMulSmall(a, b[1]), <<0>> \o BMul(a, Tail(b))))

\* x / y for doubles, y # 0.
FDiv(x, y) ==
    IF x.s = 0 THEN FZero ELSE FRound(x.s * y.s, x.m, y.m, x.e - y.e)

FMul(x, y) ==
    IF x.s = 0 \/ y.s = 0 THEN FZero
    ELSE FRound(x.s * y.s, BMul(x.m, y.m), <<1>>, x.e + y.e)

FAddAligned(x, y, e) ==
    FSum(x.s, BShl(x.m, x.e - e), y.s, BShl(y.m, y.e - e), e)

FAdd(x, y) ==
    IF x.s = 0 THEN y
    ELSE IF y.s = 0 THEN x
    ELSE FAddAligned(x, y, IF x.e < y.e THEN x.e ELSE y.e)

\* sum(...) and the += loops: a left fold from 0.
RECURSIVE FSumSeq(_)
FSumSeq(xs) ==
    IF xs = <<>> THEN FZero
    ELSE FAdd(FSumSeq(SubSeq(xs, 1, Len(xs) - 1)), xs[Len(xs)])

\* The implied probability with favourites read as underdogs.
american_odds_to_implied_prob_Unsigned(odds) == FDivInt(100, Abs(odds) + 100)

american_odds_to_implied_prob(odds) ==
    IF odds > 0 THEN FDivInt(100, odds + 100)
    ELSE FDivInt(Abs(odds), Abs(odds) + 100)

\* ZeroDivisionError is caught and 0 returned.
calculate_ev_percent(implied_prob, clv_implied_prob) ==
    IF implied_prob.s = 0 THEN FZero
    ELSE FAddInt(FDiv(clv_implied_prob, implied_prob), 0 - 1)

\* A value that may be None.
EvNone == [none |-> TRUE, v |-> FZero]

EvSome(x) == [none |-> FALSE, v |-> x]

has_valid_clv(bet) == ~bet.clv.none /\ bet.clv.k # 0

\* "if implied_prob and clv_implied_prob".
ev_computed(bet) ==
    /\ has_valid_clv(bet)
    /\ american_odds_to_implied_prob(bet.odds).s # 0
    /\ american_odds_to_implied_prob(bet.clv.k).s # 0

\* The CLV fields of a processed bet whose EV is ev_percent.
with_ev(base, bet, ev_percent) ==
    [ base EXCEPT !.ev_percent = EvSome(ev_percent),
                  !.expected_profit = EvSome(FMul(base.stake, ev_percent)),
                  !.beat_clv = bet.odds > bet.clv.k,
                  !.valid = TRUE ]

\* One turn of the loop "for bet in all_bets": beat_clv is only read when
\* valid, the membership of valid_clv_bets.
process_bet(bet) ==
    LET base == [ sportsbook |-> bet.sportsbook, sport |-> bet.sport,
                  odds |-> bet.odds, clv |-> bet.clv,
                  stake |-> PyFloat(bet.stake),
                  bet_profit |-> PyFloat(bet.bet_profit),
                  ev_percent |-> EvNone, expected_profit |-> EvNone,
                  beat_clv |-> FALSE, valid |-> FALSE ]
    IN  IF ev_computed(bet)
        THEN with_ev(base, bet,
                     calculate_ev_percent(american_odds_to_implied_prob(bet.odds),
                                          american_odds_to_implied_prob(bet.clv.k)))
        ELSE base

HasEv(b) == ~b.ev_percent.none

\* The same sums with every record in the EV count.
ev_derive_CountsAll(bet_count, total_stake, total_profit, expected_profit, ev_sum, clv_bet_count) ==
    [ bet_count |-> bet_count,
      total_stake |-> total_stake,
      total_profit |-> total_profit,
      expected_profit |-> expected_profit,
      roi |-> IF total_stake.s > 0
              THEN FMulInt(FDiv(total_profit, total_stake), 100) ELSE FZero,
      expected_roi |-> IF total_stake.s > 0
                       THEN FMulInt(FDiv(expected_profit, total_stake), 100) ELSE FZero,
      avg_ev |-> IF bet_count > 0
                 THEN FMulInt(FDiv(ev_sum, FOfInt(bet_count)), 100) ELSE FZero ]

\* The derived metrics of the totals and of a group.
ev_derive(bet_count, total_stake, total_profit, expected_profit, ev_sum, clv_bet_count) ==
    [ bet_count |-> bet_count,
      total_stake |-> total_stake,
      total_profit |-> total_profit,
      expected_profit |-> expected_profit,
      roi |-> IF total_stake.s > 0
              THEN FMulInt(FDiv(total_profit, total_stake), 100) ELSE FZero,
      expected_roi |-> IF total_stake.s > 0
                       THEN FMulInt(FDiv(expected_profit, total_stake), 100) ELSE FZero,
      avg_ev |-> IF clv_bet_count > 0
                 THEN FMulInt(FDiv(ev_sum, FOfInt(clv_bet_count)), 100) ELSE FZero ]

Field(bs, f) == [i \in 1..Len(bs) |-> bs[i][f]]

Values(bs, f) == [i \in 1..Len(bs) |-> bs[i][f].v]

\* The statistics of the processed bets bs, of which withEv have an EV.
ev_stats_of(bs, withEv) ==
    ev_derive(Len(bs), FSumSeq(Field(bs, "stake")), FSumSeq(Field(bs, "bet_profit")),
              FSumSeq(Values(withEv, "expected_profit")),
              FSumSeq(Values(withEv, "ev_percent")), Len(withEv))

ev_stats(bs) == ev_stats_of(bs, SelectSeq(bs, HasEv))

\* Bets without a sport are in no sport group.
ev_groups(bs, f) ==
    [ name \in {bs[i][f] : i \in 1..Len(bs)} \ (IF f = "sport" THEN {""} ELSE {}) |->
          ev_stats(SelectSeq(bs, LAMBDA b : b[f] = name)) ]

ev_response(bs) ==
    [ empty |-> FALSE, bets |-> bs, stats |-> ev_stats(bs),
      sportsbook_stats |-> ev_groups(bs, "sportsbook"),
      sport_stats |-> ev_groups(bs, "sport") ]

get_ev_analysis(all_bets) ==
    IF all_bets = <<>>
    THEN [ empty |-> TRUE, bets |-> <<>>, stats |-> ev_stats(<<>>),
           sportsbook_stats |-> <<>>, sport_stats |-> <<>> ]
    ELSE ev_response([i \in 1..Len(all_bets) |-> process_bet(all_bets[i])])

\* American odds of absolute value at least 100.
EvOdds ==
    { a \in (0 - MaxEvOdds)..MaxEvOdds : Abs(a) >= 100 }
      \cup {0 - 120, 0 - 110, 120, 150}

EvBet(sb, sp, o, c, st, pr) ==
    [ sportsbook |-> sb, sport |-> sp, odds |-> o, clv |-> c, stake |-> st,
      bet_profit |-> pr ]

EvBets ==
    { EvBet(sb, "basketball", 150, c, 1000, 1500) :
          sb \in {"Bovada", "BetOnline"}, c \in {NoNumber, Number(0), Number(120)} }
      \cup { EvBet("Bovada", "", 0 - 110, Number(0 - 120), 2200, 0 - 2200),
             EvBet("BetOnline", "football", 0 - 110, NoNumber, 1100, 1000) }

EvCalls ==
    { Call("process_bet", EvBet("Bovada", "basketball", o, Number(c), 1000, 0)) :
          o \in EvOdds, c \in EvOdds }
      \cup { Call("get_ev_analysis", q) : q \in SeqsUpTo(EvBets, MaxEvBets) \cup {<<>>} }

InitEv ==
    /\ db = <<>>
    /\ sess = <<>>
    /\ nextId = 1
    /\ run = IdleRun
    /\ last \in EvCalls
    /\ report = None
    /\ resp = None
    /\ db0 = <<>>
    /\ csv = NoCsv
    /\ plan = [phase |-> 0, edit |-> 0, first |-> None]

CallProcessBet ==
    /\ Calling("process_bet")
    /\ Ends([ok |-> TRUE, v |-> process_bet(last.arg)])

CallGetEvAnalysis ==
    /\ Calling("get_ev_analysis")
    /\ Ends([ok |-> TRUE, v |-> get_ev_analysis(last.arg)])

NextEv ==
    \/ CallProcessBet
    \/ CallGetEvAnalysis

SpecEv == InitEv /\ [][NextEv]_vars

\* ------------------------------------------------------------ the calendar
\* routes/unified_bets.py, /calendar-month and /calendar-day over the
\* committed table.  A date is a number of days since 1 January of a
\* common year; DATE(t) of a stored DATETIME <<t>> is t \div (24 * 60).
DATE(t) == t[1] \div (24 * 60)

DaysIn == <<31, 28, 31>>

\* datetime(year, month, 1).date() and the day before the next month's.
first_day(month) ==
    IF month = 1 THEN 0 ELSE IF month = 2 THEN DaysIn[1] ELSE DaysIn[1] + DaysIn[2]

last_day(month) == first_day(month) + DaysIn[month] - 1

RECURSIVE SumOf(_, _, _)
SumOf(view, ids, f) ==
    IF ids = {} THEN 0
    ELSE LET id == CHOOSE i \in ids : TRUE
         IN  view[id][f] + SumOf(view, ids \ {id}, f)

Count(view, ids, statuses) == Cardinality({ id \in ids : view[id].status \in statuses })

\* The rows of the first query grouped on date d, of the fallback query.
SettledOn(view, d) ==
    { id \in DOMAIN view : view[id].time_settled # NULL /\ DATE(view[id].time_settled) = d }

PlacedOn(view, d) ==
    { id \in DOMAIN view : /\ view[id].time_settled = NULL
                           /\ view[id].time_placed # NULL
                           /\ DATE(view[id].time_placed) = d }

settled_bucket(view, d, ids) ==
    [ date |-> d, bet_count |-> Cardinality(ids),
      total_stake |-> PyFloat(SumOf(view, ids, "stake")),
      settled_count |-> Count(view, ids, {"won", "lost", "refunded"}),
      pending_count |-> Count(view, ids, {"pending"}),
      won_count |-> Count(view, ids, {"won"}),
      lost_count |-> Count(view, ids, {"lost"}),
      push_count |-> Count(view, ids, {"refunded"}),
      profit |-> PyFloat(SumOf(view, { id \in ids : view[id].status \in {"won", "lost", "refunded"} },
                               "bet_profit")) ]

fallback_bucket(view, d, ids) ==
    [ date |-> d, bet_count |-> Cardinality(ids),
      total_stake |-> PyFloat(SumOf(view, ids, "stake")),
      settled_count |-> 0, pending_count |-> Cardinality(ids),
      won_count |-> 0, lost_count |-> 0, push_count |-> 0, profit |-> FZero ]

\* calendar_data: the groups of the first query, and for every other date
\* of the fallback query its group ("if date_str not in calendar_data").
calendar_data(view, first, lastd) ==
    [ d \in { e \in first..lastd : SettledOn(view, e) # {} \/ PlacedOn(view, e) # {} } |->
          IF SettledOn(view, d) # {}
          THEN settled_bucket(view, d, SettledOn(view, d))
          ELSE fallback_bucket(view, d, PlacedOn(view, d)) ]

RECURSIVE SumBuckets(_, _, _)
SumBuckets(data, days, f) ==
    IF days = {} THEN 0
    ELSE LET d == CHOOSE e \in days : TRUE
         IN  data[d][f] + SumBuckets(data, days \ {d}, f)

month_response(month, data) ==
    [ op |-> "calendar_month", code |-> 200, month |-> month,
      calendar_data |-> data,
      total_bets |-> SumBuckets(data, DOMAIN data, "bet_count"),
      settled_bets |-> SumBuckets(data, DOMAIN data, "settled_count"),
      pending_bets |-> SumBuckets(data, DOMAIN data, "pending_count"),
      days_with_bets |-> Cardinality(DOMAIN data) ]

get_unified_calendar_month(view, month) ==
    month_response(month, calendar_data(view, first_day(month), last_day(month)))

\* bet_rows, as the set of their ids: the rows settled on the date, and
\* only when there is none the rows placed on it without settlement time.
get_unified_calendar_day(view, target_date) ==
    [ op |-> "calendar_day", code |-> 200, date |-> target_date,
      bets |-> IF SettledOn(view, target_date) # {}
               THEN SettledOn(view, target_date)
               ELSE { id \in DOMAIN view : /\ view[id].time_settled = NULL
                                           /\ view[id].time_placed # NULL
                                           /\ DATE(view[id].time_placed) = target_date } ]

\* The Pikkit time string of hour h of day d, Central time.
CalendarDate(d, h) == DateStr(((d * 24 + h) * 60 + GmtToCentral) * 60)

\* A wager placed and settled on 10 January, one placed that day and
\* settled on 1 February or not yet, one placed late on 31 January and
\* settled on 1 February or not yet.
CalendarRowOf(b, p, t) ==
    [BasePikkitRow EXCEPT !.bet_id = b, !.time_placed = p, !.time_settled = t,
                          !.status = IF t = NoDate THEN "placed" ELSE "SETTLED_WIN"]

CalendarRows ==
    { CalendarRowOf("abc123", CalendarDate(9, 9), CalendarDate(9, 20)),
      CalendarRowOf("xyz789", CalendarDate(9, 9), NoDate),
      CalendarRowOf("xyz789", CalendarDate(9, 9), CalendarDate(31, 1)),
      CalendarRowOf("def456", CalendarDate(30, 23), NoDate),
      CalendarRowOf("def456", CalendarDate(30, 23), CalendarDate(31, 1)) }

CalendarRow ==
    /\ \E row \in CalendarRows : ImportPikkitRow(row)
    /\ nextId' <= MaxId + 1

StartCalendarImport ==
    /\ \E n \in 1..MaxRows : BeginRun("pikkit", n)
    /\ UNCHANGED <<csv, plan>>

GetCalendarMonth ==
    /\ Idle
    /\ \E month \in DOMAIN DaysIn : resp' = get_unified_calendar_month(db, month)
    /\ UNCHANGED <<db, sess>>
    /\ VerifyFrame

GetCalendarDay ==
    /\ Idle
    /\ \E d \in {9, 30, 31} : resp' = get_unified_calendar_day(db, d)
    /\ UNCHANGED <<db, sess>>
    /\ VerifyFrame

NextCalendar ==
    \/ StartCalendarImport
    \/ CalendarRow
    \/ FinalCommit
    \/ GetCalendarMonth
    \/ GetCalendarDay

SpecCalendar == Init /\ [][NextCalendar]_vars

\* ------------------------------------------------------ overlapping runs
\* Two processes run import_unified.py against the same table, each in its
\* own session (every POST /sync starts one with subprocess.run; nothing
\* keeps two of them apart).  The table is InnoDB and the isolation level
\* is never set: under REPEATABLE READ the lookups of a transaction read
\* the snapshot taken when it began and its own writes, AUTO_INCREMENT
\* hands out ids across transactions, an UPDATE ... WHERE id waits while
\* another transaction holds an uncommitted write of that row, and commit
\* publishes the transaction's writes.  Here sess, run and csv hold one
\* component for each process; a process imports its export once.
MaxConcurrentRows == 2

Procs == {1, 2}

ConcurrentOddsjamRows ==
    << BaseOddsjamRow,
       [BaseOddsjamRow EXCEPT !.bet_name = <<"Y">>],
       [BaseOddsjamRow EXCEPT !.sportsbook = "FanDuel"] >>

ConcurrentPikkitRows ==
    << BasePikkitRow,
       [BasePikkitRow EXCEPT !.bet_id = "xyz789"],
       [BasePikkitRow EXCEPT !.status = "SETTLED_LOSS"] >>

\* The export of a source with n rows.
Export(src, n) ==
    [ src |-> src,
      rows |-> SubSeq(IF src = "oddsjam" THEN ConcurrentOddsjamRows
                      ELSE ConcurrentPikkitRows, 1, n) ]

Outcome(op, src, id, u, view) == [op |-> op, src |-> src, id |-> id, u |-> u, view |-> view]

\* One iteration of the loop of either importer as a function of the
\* session's view: the outcomes the row can have, id being the next
\* AUTO_INCREMENT value.
oddsjam_row(view, id, row, conv) ==
    IF should_use_pikkit_data(row.sportsbook)
    THEN {Outcome("skipped", "oddsjam", 0, conv.data, view)}
    ELSE IF ~conv.ok
    THEN {Outcome("error", "oddsjam", 0, conv.data, view)}
    ELSE IF OddsjamMatches(view, conv.data) = {}
    THEN {Outcome("inserted", "oddsjam", id, conv.data, InsertBet(view, id, conv.data, FALSE))}
    ELSE { Outcome("updated", "oddsjam", m, conv.data, UpdateOddsjamBet(view, m, conv.data)) :
               m \in OddsjamMatches(view, conv.data) }

pikkit_row(view, id, row, conv) ==
    IF row.bet_id = "" \/ ~conv.ok
    THEN {Outcome("error", "pikkit", 0, conv.data, view)}
    ELSE IF PikkitMatches(view, row.bet_id) = {}
    THEN {Outcome("inserted", "pikkit", id, conv.data, InsertBet(view, id, conv.data, TRUE))}
    ELSE { Outcome("updated", "pikkit", m, conv.data, UpdatePikkitBet(view, m, conv.data)) :
               m \in PikkitMatches(view, row.bet_id) }

import_row(src, view, id, row, index) ==
    IF src = "oddsjam"
    THEN oddsjam_row(view, id, row, convert_oddsjam_to_unified(row, index))
    ELSE pikkit_row(view, id, row, convert_pikkit_to_unified(row))

\* Faulty variant of Publish: the commit stores the session's view.
Publish_View(table, view, log) == view

\* The committed table after a transaction with the writes of log commits:
\* its inserts, and its updates applied to the rows as they are now.
RECURSIVE Publish(_, _, _)
Publish(table, view, log) ==
    IF log = <<>> THEN table
    ELSE LET w == Head(log)
         IN  Publish(IF w.op = "inserted"
                     THEN InsertBet(table, w.id, w.u, w.src = "pikkit")
                     ELSE IF w.src = "oddsjam" THEN UpdateOddsjamBet(table, w.id, w.u)
                     ELSE UpdatePikkitBet(table, w.id, w.u),
                     view, Tail(log))

IdleProc == [IdleRun EXCEPT !.src = "idle"] @@ [log |-> <<>>, done |-> FALSE]

\* The ids with an uncommitted write of the process.
Locked(q) == { run[q].log[i].id : i \in 1..Len(run[q].log) }

InitConcurrent ==
    /\ db = <<>>
    /\ nextId = 1
    /\ sess = [p \in Procs |-> <<>>]
    /\ run = [p \in Procs |-> IdleProc]
    /\ \E a, b \in {"oddsjam", "pikkit"}, n, k \in 1..MaxConcurrentRows :
           csv = <<Export(a, n), Export(b, k)>>
    /\ last = None
    /\ report = None
    /\ resp = None
    /\ db0 = <<>>
    /\ plan = [phase |-> 0, edit |-> 0, first |-> None]

\* The process starts: pd.read_csv, and its transaction begins.
BeginConcurrent(p) ==
    /\ run[p].src = "idle"
    /\ ~run[p].done
    /\ run' = [run EXCEPT ![p] = [IdleProc EXCEPT !.src = csv[p].src,
                                                  !.n = Len(csv[p].rows)]]
    /\ sess' = [sess EXCEPT ![p] = db]
    /\ last' = [op |-> "begin", proc |-> p, src |-> csv[p].src]
    /\ UNCHANGED <<db, nextId, report, resp, db0, csv, plan>>

Counted(r, out, view) ==
    [ r EXCEPT !.index = @ + 1,
               !.new_count = @ + (IF out.op = "inserted" THEN 1 ELSE 0),
               !.updated_count = @ + (IF out.op = "updated"
                                      THEN UpdateRowcount(view, out.id) ELSE 0),
               !.skipped_count = @ + (IF out.op = "skipped" THEN 1 ELSE 0),
               !.error_count = @ + (IF out.op = "error" THEN 1 ELSE 0),
               !.log = IF out.op \in {"inserted", "updated"}
                       THEN Append(@, [op |-> out.op, src |-> out.src, id |-> out.id, u |-> out.u])
                       ELSE @ ]

\* The next row of the process's export.
ConcurrentRow(p) ==
    /\ run[p].src # "idle"
    /\ run[p].index < run[p].n
    /\ \E out \in import_row(run[p].src, sess[p], nextId,
                             csv[p].rows[run[p].index + 1], run[p].index) :
          /\ out.op = "updated" => \A q \in Procs \ {p} : out.id \notin Locked(q)
          /\ sess' = [sess EXCEPT ![p] = out.view]
          /\ nextId' = IF out.op = "inserted" THEN nextId + 1 ELSE nextId
          /\ run' = [run EXCEPT ![p] = Counted(@, out, sess[p])]
          /\ last' = [ op |-> out.op, proc |-> p, src |-> out.src, id |-> out.id,
                       new |-> out.u ]
    /\ UNCHANGED <<db, report, resp, db0, csv, plan>>

\* The final db.session.commit() of the process.
ConcurrentCommit(p) ==
    /\ run[p].src # "idle"
    /\ run[p].index = run[p].n
    /\ db' = Publish(db, sess[p], run[p].log)
    /\ report' = [ op |-> "report", src |-> run[p].src, success |-> TRUE,
                   error |-> "", rows |-> run[p].n, new_count |-> run[p].new_count,
                   updated_count |-> run[p].updated_count,
                   skipped_count |-> run[p].skipped_count,
                   error_count |-> run[p].error_count ]
    /\ run' = [run EXCEPT ![p] = [IdleProc EXCEPT !.done = TRUE, !.log = run[p].log]]
    /\ last' = [op |-> "commit", proc |-> p, src |-> run[p].src]
    /\ UNCHANGED <<sess, nextId, resp, db0, csv, plan>>

NextConcurrent ==
    \/ \E p \in Procs : BeginConcurrent(p)
    \/ \E p \in Procs : ConcurrentRow(p)
    \/ \E p \in Procs : ConcurrentCommit(p)

SpecConcurrent == InitConcurrent /\ [][NextConcurrent]_vars

\* The tables that importing the rows from row index + 1 on, alone, can
\* leave, with the next id.
RECURSIVE SequentialRun(_, _, _, _)
SequentialRun(export, view, id, index) ==
    IF index = Len(export.rows) THEN {[view |-> view, id |-> id]}
    ELSE UNION { SequentialRun(export, out.view,
                               IF out.op = "inserted" THEN id + 1 ELSE id, index + 1) :
                     out \in import_row(export.src, view, id, export.rows[index + 1], index) }

\* The tables of one import after the other.
OneAfterTheOther(first, second) ==
    UNION { { r2.view : r2 \in SequentialRun(second, r1.view, r1.id, 0) } :
                r1 \in SequentialRun(first, <<>>, 1, 0) }

\* =================================================================== claims
Terminal == {"won", "lost", "refunded"}

RunSucceeded == Idle /\ report.op = "report" /\ report.success

RunLost ==
    Idle /\ ( \/ report.op = "killed"
              \/ report.op = "report" /\ ~report.success /\ report.error = "commit" )

WithinOneMinute(a, b) ==
    \/ a = NULL /\ b = NULL
    \/ a # NULL /\ b # NULL /\ a[1] - b[1] <= 1 /\ b[1] - a[1] <= 1

NoSharedKey(view) ==
    \A i, j \in DOMAIN view :
        i # j =>
            /\ ~ ( /\ view[i].source = "pikkit"
                   /\ view[j].source = "pikkit"
                   /\ view[i].original_bet_id = view[j].original_bet_id )
            /\ ~ ( /\ view[i].source = "oddsjam"
                   /\ view[j].source = "oddsjam"
                   /\ view[i].bet_info = view[j].bet_info
                   /\ WithinOneMinute(view[i].time_placed, view[j].time_placed) )

\* C1: after any sequence of sequential import runs of either source, no two
\* canonical records share a matching key: never two Pikkit records with the
\* same original_bet_id, never two OddsJam records with the same bet_info
\* whose time_placed are within one minute of each other or both null; in
\* the committed table and in what the running import sees.
C1_UniqueMatchingKeys == NoSharedKey(db) /\ NoSharedKey(sess)

\* A re-import matched a stored wager while the table holds two OddsJam
\* wagers of the same description.
C1_Witness ==
    /\ RunSucceeded
    /\ report.updated_count >= 1
    /\ \E i, j \in DOMAIN db :
          /\ i # j
          /\ db[i].source = "oddsjam"
          /\ db[j].source = "oddsjam"
          /\ db[i].bet_info = db[j].bet_info

\* C2 (as stated): when the same unchanged export is imported a second time,
\* the second run reports updated_count = 0.
C2_Original ==
    (RunSucceeded /\ plan.phase = 2 /\ plan.edit = 0) => report.updated_count = 0

\* The rows of the export were all inserted by the first run, as distinct
\* wagers, and one of them had its stake corrected before the second run.
CorrectedReimport ==
    /\ RunSucceeded
    /\ plan.phase = 2
    /\ plan.edit # 0
    /\ plan.first.new_count = plan.first.rows

\* C3 (as stated): an export of N rows re-imported with exactly one row's
\* stake changed changes the stake of exactly that one canonical record,
\* reports updated_count = 1 and leaves every record's matching key and
\* verified flag as they were.
C3_Original ==
    CorrectedReimport =>
        /\ report.updated_count = 1
        /\ Cardinality({ id \in DOMAIN db0 : db[id].stake # db0[id].stake }) = 1
        /\ DOMAIN db = DOMAIN db0
        /\ \A id \in DOMAIN db0 :
              /\ db[id].verified = db0[id].verified
              /\ db[id].source = db0[id].source
              /\ db[id].source = "pikkit" =>
                     db[id].original_bet_id = db0[id].original_bet_id
              /\ db[id].source = "oddsjam" =>
                     /\ db[id].bet_info = db0[id].bet_info
                     /\ db[id].time_placed = db0[id].time_placed

\* C4 (as stated): an OddsJam import never inserts or updates a canonical
\* record whose sportsbook name resolves, by the authority table, to a
\* Pikkit-authoritative name.
C4_Original ==
    \A id \in DOMAIN sess :
        sess[id].source = "oddsjam" =>
            determine_data_source(sess[id].sportsbook) # "pikkit"

\* C5 (as stated): a Pikkit import never inserts or updates a canonical
\* record whose sportsbook is OddsJam-authoritative.
C5_Original ==
    \A id \in DOMAIN sess :
        sess[id].source = "pikkit" =>
            get_normalized_sportsbook_name(sess[id].sportsbook)
                \notin ODDSJAM_SPORTSBOOKS

\* C6 (as stated): once a canonical record has a terminal status, no later
\* import run sets its status back to pending.
C6_Original ==
    RunSucceeded =>
        \A id \in DOMAIN db0 :
            db0[id].status \in Terminal => db[id].status # "pending"

\* C7: an import run never changes verified from true to false: not the
\* update of a matched record, not in what the run sees of the records that
\* were verified when it started, not in the table the run leaves behind
\* (committed, rolled back or killed).
C7_VerifiedKept ==
    /\ last.op = "updated" => (last.old.verified => sess[last.id].verified)
    /\ ~Idle =>
          \A id \in DOMAIN db0 :
              db0[id].verified => id \in DOMAIN sess /\ sess[id].verified
    /\ report.op \in {"report", "killed"} =>
          \A id \in DOMAIN db0 :
              db0[id].verified => id \in DOMAIN db /\ db[id].verified

\* An OddsJam record that was marked verified is matched and updated by a
\* later import.
C7_Witness ==
    /\ last.op = "updated"
    /\ last.src = "oddsjam"
    /\ last.old.verified
    /\ sess[last.id].status # last.old.status

\* C8: a canonical record inserted by a Pikkit import has verified = TRUE at
\* creation, one inserted by an OddsJam import has verified = FALSE.
C8_VerifiedAtCreation ==
    last.op = "inserted" =>
        /\ last.id \in DOMAIN sess
        /\ sess[last.id].source = last.src
        /\ sess[last.id].verified = (last.src = "pikkit")

\* A Pikkit record has just been inserted beside an OddsJam record.
C8_Witness ==
    /\ last.op = "inserted"
    /\ last.src = "pikkit"
    /\ \E id \in DOMAIN sess : sess[id].source = "oddsjam" /\ ~sess[id].verified

\* A verification request naming at least one Pikkit record.
NamesPikkitRecord ==
    /\ resp.op \in {"verify_bet", "verify_multiple"}
    /\ \E id \in resp.ids \cap DOMAIN db0 : db0[id].source = "pikkit"

EligibleIds(view, ids) ==
    { id \in ids \cap DOMAIN view :
          view[id].source = "oddsjam" /\ ~view[id].verified }

\* C9 (as stated): a mark-verified request for a Pikkit record is rejected
\* and leaves the store unchanged, in the single-record operation and in the
\* bulk operation when the Pikkit id comes with eligible OddsJam ids.
C9_Original == NamesPikkitRecord => (resp.code # 200 /\ db = db0)

\* C9 (amended): the single-record operation rejects a Pikkit record with
\* 400 and leaves the store unchanged.  The bulk operation never changes a
\* Pikkit record and never lists its id among verified_bet_ids; it answers
\* 404 with the store unchanged when no id of the request is an unverified
\* OddsJam record, and otherwise drops the Pikkit id silently: it answers
\* 200 for the eligible ids alone (500 and no change when the commit fails).
C9_Amended ==
    NamesPikkitRecord =>
        /\ \A id \in resp.ids \cap DOMAIN db0 :
              db0[id].source = "pikkit" =>
                  db[id] = db0[id] /\ id \notin resp.verified_bet_ids
        /\ resp.op = "verify_bet" => (resp.code = 400 /\ db = db0)
        /\ resp.op = "verify_multiple" =>
              IF EligibleIds(db0, resp.ids) = {}
              THEN resp.code = 404 /\ db = db0
              ELSE \/ /\ resp.code = 200
                      /\ resp.verified_bet_ids = EligibleIds(db0, resp.ids)
                      /\ db = SetVerified(db0, EligibleIds(db0, resp.ids))
                   \/ resp.code = 500 /\ db = db0

\* The bulk operation succeeded on a request that names a Pikkit record.
C9_Witness ==
    /\ NamesPikkitRecord
    /\ resp.op = "verify_multiple"
    /\ resp.code = 200
    /\ db # db0

\* C10 (as stated): when the final commit of an import run fails, or the
\* process is killed before it, the store equals its state before the run,
\* for batches of any size.
C10_Original == RunLost => db = db0

\* C11: a single bad row never aborts the batch.  The step that processes a
\* row which raises counts it in error_count and changes nothing else: the
\* session keeps the uncommitted rows that came before, the table, the next
\* id and the other counters are as they were and the run goes on to the
\* next row, so every following row meets the state it would have met had
\* the bad row not raised; and a run that counted errors ends in a report
\* that carries the count (or is killed), never in an exception.
C11_BadRowIsolated ==
    [][ /\ (~Idle /\ last'.op = "error") =>
              /\ sess' = sess
              /\ db' = db
              /\ nextId' = nextId
              /\ run' = [run EXCEPT !.index = @ + 1, !.error_count = @ + 1]
        /\ (~Idle /\ run.error_count > 0 /\ run'.src = "idle") =>
              /\ report'.op \in {"report", "killed"}
              /\ report'.op = "report" =>
                    (report'.success => report'.error_count = run.error_count)
      ]_vars

\* A run inserted a wager, met a bad row and then matched and updated the
\* wager it had inserted, still uncommitted, before the bad row.
C11_Witness ==
    /\ last.op = "updated"
    /\ run.new_count = 1
    /\ run.error_count = 1
    /\ run.updated_count = 1
    /\ last.id \notin DOMAIN db

\* C12 (as stated): a row whose placement or settlement date string cannot
\* be parsed is counted in errors and produces no inserted or updated
\* record (every row of these exports has such a date).
C12_Original ==
    /\ last.op \notin {"inserted", "updated"}
    /\ ~Idle => (run.error_count = run.index /\ sess = db)

\* C13: an update performed by an import never changes the matched record's
\* source or its matching-key fields: an OddsJam record keeps the bet_info
\* and the time_placed it was inserted with, also when the matching row's
\* time_placed differs by one minute, and a Pikkit record keeps its
\* original_bet_id.
C13_KeyFieldsKept ==
    last.op = "updated" =>
        /\ sess[last.id].source = last.old.source
        /\ sess[last.id].source = last.src
        /\ last.src = "oddsjam" =>
              /\ sess[last.id].bet_info = last.old.bet_info
              /\ sess[last.id].time_placed = last.old.time_placed
        /\ last.src = "pikkit" =>
              sess[last.id].original_bet_id = last.old.original_bet_id

\* An OddsJam row placed one minute away from the stored record matched it
\* and updated it.
C13_Witness ==
    /\ last.op = "updated"
    /\ last.src = "oddsjam"
    /\ last.new.time_placed # NULL
    /\ last.old.time_placed # NULL
    /\ last.new.time_placed # last.old.time_placed
    /\ sess[last.id].status # last.old.status

MutableFields ==
    { "sportsbook", "bet_type", "status", "odds", "clv", "stake",
      "bet_profit", "time_settled", "tags", "sport", "league" }

\* C14: last writer wins.  When an imported row matches a record, after the
\* update every mutable field of the record (sportsbook, bet_type, status,
\* odds, clv, stake, bet_profit, time_settled, tags, sport, league) equals
\* the value mapped from the row, and no other record is modified, inserted
\* or removed.
C14_LastWriterWins ==
    [][ last'.op = "updated" =>
          /\ \A f \in MutableFields : sess'[last'.id][f] = last'.new[f]
          /\ DOMAIN sess' = DOMAIN sess
          /\ \A i \in DOMAIN sess \ {last'.id} : sess'[i] = sess[i]
          /\ db' = db
      ]_vars

\* A Pikkit row matched one of two stored records and changed its status.
C14_Witness ==
    /\ last.op = "updated"
    /\ last.src = "pikkit"
    /\ Cardinality(DOMAIN sess) = 2
    /\ sess[last.id].status # last.old.status
    /\ sess[last.id].status = last.new.status

\* The record keeps its source and its matching key.
SameRecord(a, b) ==
    /\ a.source = b.source
    /\ a.source = "pikkit" => a.original_bet_id = b.original_bet_id
    /\ a.source = "oddsjam" =>
          a.bet_info = b.bet_info /\ a.time_placed = b.time_placed

\* C15: no import run and no verification action deletes a canonical record
\* or changes the id of an existing record: in every step every id of the
\* table is still in the table and still names the same wager, and an id
\* that is new to the table is larger than every id that was in it.
C15_IdsOnlyGrow ==
    [][ /\ \A id \in DOMAIN db :
              id \in DOMAIN db' /\ SameRecord(db'[id], db[id])
        /\ \A id \in DOMAIN db' \ DOMAIN db :
              \A old \in DOMAIN db : old < id
      ]_vars

\* A run that updated a stored wager has been committed to a table of two
\* records, one of them marked verified by a verification request.
C15_Witness ==
    /\ RunSucceeded
    /\ report.updated_count = 1
    /\ Cardinality(DOMAIN db) = 2
    /\ db # db0
    /\ \E id \in DOMAIN db : db[id].source = "oddsjam" /\ db[id].verified

\* Two names are spellings of the same book.
AliasSpellings(a, b) ==
    a # b /\ a \in DOMAIN SPORTSBOOK_ALIASES /\ SPORTSBOOK_ALIASES[a] = b

\* C16 (as stated): the canonical record stores the alias-resolved
\* sportsbook name: records imported from rows whose sportsbook names are
\* alias spellings of one book carry the same sportsbook value, the stored
\* value is the resolved one, and resolving a resolved name returns it
\* unchanged.
C16_Original ==
    \A i, j \in DOMAIN sess :
        /\ ~AliasSpellings(sess[i].sportsbook, sess[j].sportsbook)
        /\ get_normalized_sportsbook_name(
               get_normalized_sportsbook_name(sess[i].sportsbook))
             = get_normalized_sportsbook_name(sess[i].sportsbook)

\* ---------------------------------------------------------------------
Ended(fn) == last.op \in {"returned", "raised"} /\ last.fn = fn

\* n is an integer nearest to the quotient p / q of integers, q > 0.
Nearest(n, p, q) == 2 * Abs(n * q - p) <= q

\* C17: decimal_to_american_odds rounds to the nearest integer: for every
\* decimal odds value with two decimal places it returns round((d - 1) * 100)
\* when d >= 2.0 and round(-100 / (d - 1)) when 1 < d < 2.0; the source-B row
\* with odds 1.91 and closing_line 1.80 maps to odds -110 and clv -125.
C17_Original ==
    /\ ( Ended("decimal_to_american_odds") /\ ~last.arg.none /\ last.arg.k > 100 )
         => /\ last.op = "returned"
            /\ IF last.arg.k >= 200
               THEN last.res = last.arg.k - 100
               ELSE Nearest(last.res, 0 - 10000, last.arg.k - 100)
    /\ ( Ended("convert_pikkit_to_unified") /\ last.arg = ScenarioPikkitRow )
         => /\ last.op = "returned"
            /\ last.res.odds = 0 - 110
            /\ last.res.clv = 0 - 125

\* C18: the odds converters are total: for every input (None, 0, negative
\* values, decimal odds exactly 1.0, decimal odds between 0 and 1) they
\* return a value, the sentinel 0 for inputs that are not valid odds, and
\* never raise.
C18_Original ==
    /\ Ended("decimal_to_american_odds")
         => /\ last.op = "returned"
            /\ (last.arg.none \/ last.arg.k <= 100) => last.res = 0
    /\ Ended("american_to_decimal_odds")
         => /\ last.op = "returned"
            /\ (last.arg.none \/ last.arg.k = 0) => last.res = FZero

\* C19 as stated: for every integer American odds a with |a| >= 100,
\* decimal_to_american_odds(american_to_decimal_odds(a)) differs from a by
\* at most 1.
C19_Original ==
    Ended("round_trip")
      => last.op = "returned" /\ Abs(last.res - last.arg.k) <= 1

\* C19, amended: for every integer American odds a with a >= 100 or
\* a <= -101 the round trip returns an integer within 1 of a, and for
\* a = -100, whose decimal odds are 2.0, it returns +100.
C19_RoundTripButEvenMoney ==
    Ended("round_trip")
      => /\ last.op = "returned"
         /\ IF last.arg.k = 0 - 100 THEN last.res = 100
            ELSE Abs(last.res - last.arg.k) <= 1

C19_Witness ==
    /\ Ended("round_trip")
    /\ last.op = "returned"
    /\ last.arg.k < 0 - 100
    /\ last.res = last.arg.k + 1

\* The lookup tables of the specification, on upper-case strings.
DocumentedStatus(source) ==
    IF source = "oddsjam"
    THEN [ st \in {"PENDING", "WON", "LOST", "REFUNDED"} |->
             CASE st = "PENDING" -> "pending" [] st = "WON" -> "won"
               [] st = "LOST" -> "lost" [] st = "REFUNDED" -> "refunded" ]
    ELSE [ st \in {"PLACED", "SETTLED_WIN", "SETTLED_LOSS", "SETTLED_PUSH", "SETTLED_VOID"} |->
             CASE st = "PLACED" -> "pending" [] st = "SETTLED_WIN" -> "won"
               [] st = "SETTLED_LOSS" -> "lost" [] st = "SETTLED_PUSH" -> "refunded"
               [] st = "SETTLED_VOID" -> "refunded" ]

\* C20: normalize_status is total and case-insensitive: for every status
\* string (documented, unrecognized, empty or None) and either source it
\* returns one of pending, won, lost, refunded; a documented string, in any
\* letter case, maps to its table entry (Pikkit push and void both to
\* refunded) and every other string maps to pending.
C20_StatusTotal ==
    Ended("normalize_status")
      => /\ last.op = "returned"
         /\ last.res \in {"pending", "won", "lost", "refunded"}
         /\ LET table == DocumentedStatus(last.arg.source)
            IN  IF Upper(last.arg.s) \in DOMAIN table
                THEN last.res = table[Upper(last.arg.s)]
                ELSE last.res = "pending"

C20_Witness ==
    /\ Ended("normalize_status")
    /\ last.arg.source = "pikkit"
    /\ last.arg.s = "Settled_Push"
    /\ last.res = "refunded"

\* C25: every row of an export is counted in exactly one outcome: for every
\* import run that completes, inserted + updated + skipped + errors equals
\* the number of rows of the export.
C25_Original ==
    RunSucceeded
      => report.new_count + report.updated_count + report.skipped_count
           + report.error_count = report.rows

\* The mapped row of the loop iteration that l records, v being the
\* session after it.
RowOfStep(l, v) == IF l.op = "updated" THEN l.new ELSE v[l.id]

Wrote(l) == l.op \in {"inserted", "updated"} /\ l.src = "oddsjam"

SameOddsjamKey(a, b) ==
    a.bet_info = b.bet_info /\ WithinOneMinute(a.time_placed, b.time_placed)

\* C26 as stated: within one source-A batch, a row whose composed description
\* equals an earlier row's and whose time_placed is within one minute of it
\* (or both null) does not insert a second record: it matches the record of
\* the earlier row inserted, so the two rows end as one record.  Stated for
\* two consecutive rows of a batch, the first of which inserted a record.
C26_Original ==
    [][ ( /\ Wrote(last)
          /\ last.op = "inserted"
          /\ Wrote(last')
          /\ SameOddsjamKey(RowOfStep(last, sess), RowOfStep(last', sess')) )
        => ( last'.op = "updated" /\ last'.id = last.id /\ nextId' = nextId )
      ]_vars

\* C26, amended: a row whose description equals that of a record inserted
\* earlier in the same uncommitted batch, and whose time_placed is within one
\* minute of that record's stored time_placed (or both null), inserts
\* nothing: it matches a stored record with that key and overwrites its
\* mutable fields.
C26_MatchesUncommitted ==
    [][ ( /\ Wrote(last')
          /\ \E id \in DOMAIN sess \ DOMAIN db :
                /\ sess[id].source = "oddsjam"
                /\ SameOddsjamKey(sess[id], RowOfStep(last', sess')) )
        => ( /\ last'.op = "updated"
             /\ nextId' = nextId
             /\ DOMAIN sess' = DOMAIN sess
             /\ sess[last'.id].source = "oddsjam"
             /\ SameOddsjamKey(sess[last'.id], last'.new)
             /\ \A f \in MutableFields : sess'[last'.id][f] = last'.new[f] )
      ]_vars

\* A row matched and changed a record that the same batch had inserted and
\* not yet committed.
C26_Witness ==
    /\ last.op = "updated"
    /\ last.src = "oddsjam"
    /\ last.id \notin DOMAIN db
    /\ last.new.time_placed # last.old.time_placed
    /\ sess[last.id].status # last.old.status

\* C28: once a source-A record has been marked verified it never again
\* appears in the unverified-bets list, whatever later imports change about
\* it: a verified record stays in the table and stays verified in every step,
\* and the list holds exactly the records that are source A, unverified and
\* won, lost or refunded.
C28_VerifiedNeverListed ==
    [][ /\ \A id \in DOMAIN db :
              db[id].verified => id \in DOMAIN db' /\ db'[id].verified
        /\ resp'.op = "get_unverified_bets" =>
              /\ \A id \in DOMAIN db : db[id].verified => id \notin resp'.items
              /\ \A id \in DOMAIN db' :
                    id \in resp'.items <=>
                        /\ db'[id].source = "oddsjam"
                        /\ ~db'[id].verified
                        /\ db'[id].status \in Terminal
      ]_vars

\* The list is requested while the table holds a verified settled source-A
\* record, left out of the list, next to an unverified one that is in it.
C28_Witness ==
    /\ resp.op = "get_unverified_bets"
    /\ resp.items # {}
    /\ \E id \in DOMAIN db :
          /\ db[id].source = "oddsjam"
          /\ db[id].verified
          /\ db[id].status \in Terminal
          /\ id \notin resp.items

\* verified of record id differs between the tables a and b.
VerifiedChanged(a, b, id) ==
    id \in DOMAIN a \cap DOMAIN b /\ a[id].verified # b[id].verified

\* C30: in every state reachable by imports and verification actions every
\* source-B record has verified = TRUE, and verified only ever changes from
\* FALSE to TRUE, only on source-A records, and only by a mark-verified
\* request that succeeds and names the record.
C30_VerifiedDiscipline ==
    [][ /\ \A id \in DOMAIN db' : db'[id].source = "pikkit" => db'[id].verified
        /\ \A id \in DOMAIN sess' : sess'[id].source = "pikkit" => sess'[id].verified
        /\ \A id \in DOMAIN sess : ~VerifiedChanged(sess, sess', id) \/ sess' = db'
        /\ \A id \in DOMAIN db :
              VerifiedChanged(db, db', id) =>
                  /\ ~db[id].verified
                  /\ db'[id].verified
                  /\ db[id].source = "oddsjam"
                  /\ db'[id].source = "oddsjam"
                  /\ resp'.op \in {"verify_bet", "verify_multiple"}
                  /\ resp'.code = 200
                  /\ id \in resp'.verified_bet_ids
      ]_vars

\* A mark-verified request has just turned a source-A record verified while
\* the table also holds a source-B record.
C30_Witness ==
    /\ resp.op = "verify_bet"
    /\ resp.code = 200
    /\ \E id \in resp.verified_bet_ids : ~db0[id].verified /\ db[id].verified
    /\ \E id \in DOMAIN db : db[id].source = "pikkit"

\* C29: the authority decision of the import agrees with the authority
\* table: for every sportsbook name (alias spellings and names with
\* surrounding blanks included) the source-A import skips the row exactly
\* when determine_data_source returns 'pikkit', and a name in neither set
\* is assigned to source A.
C29_Original ==
    /\ ( last.op = "skipped" /\ last.src = "oddsjam" )
         => determine_data_source(last.sportsbook) = "pikkit"
    /\ Wrote(last)
         => determine_data_source(RowOfStep(last, sess).sportsbook) = "oddsjam"


\* C21 as stated: whenever odds and closing line are American odds of
\* absolute value at least 100, beat_clv is true exactly when ev_percent is
\* greater than 0.
ProcessedBet == last.op = "returned" /\ last.fn = "process_bet"

C21_Original ==
    ProcessedBet => (last.res.beat_clv <=> last.res.ev_percent.v.s > 0)

\* C21, amended: for American odds and closing line of absolute value at
\* least 100, beat_clv (odds > closing line) is true exactly when ev_percent
\* is greater than 0, except for odds +100 against the closing line -100,
\* the same even-money price, where beat_clv is true and ev_percent is 0;
\* odds +150 against the closing line +120 give beat_clv and ev_percent > 0.
C21_SignConsistency ==
    ProcessedBet =>
        /\ last.res.valid
        /\ IF last.arg.odds = 100 /\ last.arg.clv.k = 0 - 100
           THEN last.res.beat_clv /\ last.res.ev_percent.v.s = 0
           ELSE last.res.beat_clv <=> last.res.ev_percent.v.s > 0
        /\ (last.arg.odds = 150 /\ last.arg.clv.k = 120) =>
               last.res.beat_clv /\ last.res.ev_percent.v.s > 0

C21_Witness ==
    /\ ProcessedBet
    /\ last.arg.odds = 150
    /\ last.arg.clv.k = 120
    /\ last.res.beat_clv
    /\ last.res.ev_percent.v.s > 0

\* C22: a record with null or zero closing line is counted in the bet count,
\* total stake, total profit and ROI of the overall totals and of its
\* sportsbook and sport groups, and adds nothing to expected profit or
\* average EV%: expected profit is the sum of stake * ev_percent and average
\* EV% the mean of ev_percent, in percent, over the records of the group
\* that have a valid closing line.
Analysed == last.op = "returned" /\ last.fn = "get_ev_analysis" /\ last.arg # <<>>

EvOfBet(b) ==
    calculate_ev_percent(american_odds_to_implied_prob(b.odds),
                         american_odds_to_implied_prob(b.clv.k))

Cents(bs, f) == [i \in 1..Len(bs) |-> PyFloat(bs[i][f])]

MeanPercent(sum, n) == IF n = 0 THEN FZero ELSE FMulInt(FDiv(sum, FOfInt(n)), 100)

\* st are the statistics of the records group, of which valid have a closing line.
C22_GroupOf(st, group, valid) ==
    /\ st.bet_count = Len(group)
    /\ st.total_stake = FSumSeq(Cents(group, "stake"))
    /\ st.total_profit = FSumSeq(Cents(group, "bet_profit"))
    /\ st.total_stake.s > 0 =>
           st.roi = FMulInt(FDiv(FSumSeq(Cents(group, "bet_profit")),
                                 FSumSeq(Cents(group, "stake"))), 100)
    /\ st.expected_profit =
           FSumSeq([i \in 1..Len(valid) |->
                        FMul(PyFloat(valid[i].stake), EvOfBet(valid[i]))])
    /\ st.avg_ev =
           MeanPercent(FSumSeq([i \in 1..Len(valid) |-> EvOfBet(valid[i])]), Len(valid))

C22_Group(st, group) == C22_GroupOf(st, group, SelectSeq(group, has_valid_clv))

C22_ClvlessCounted ==
    Analysed =>
        /\ C22_Group(last.res.stats, last.arg)
        /\ \A i \in 1..Len(last.arg) :
              /\ last.arg[i].sportsbook \in DOMAIN last.res.sportsbook_stats
              /\ C22_Group(last.res.sportsbook_stats[last.arg[i].sportsbook],
                           SelectSeq(last.arg, LAMBDA b : b.sportsbook = last.arg[i].sportsbook))
              /\ last.arg[i].sport # "" =>
                    /\ last.arg[i].sport \in DOMAIN last.res.sport_stats
                    /\ C22_Group(last.res.sport_stats[last.arg[i].sport],
                                 SelectSeq(last.arg, LAMBDA b : b.sport = last.arg[i].sport))

\* A group of two records, one without closing line, whose average EV% is
\* the EV of the other.
C22_Witness ==
    /\ Analysed
    /\ \E i, j \in 1..Len(last.arg) :
          /\ ~has_valid_clv(last.arg[i])
          /\ has_valid_clv(last.arg[j])
          /\ last.arg[i].sportsbook = last.arg[j].sportsbook
          /\ last.arg[i].sport = last.arg[j].sport
          /\ last.res.sportsbook_stats[last.arg[i].sportsbook].bet_count = 2
          /\ last.res.sportsbook_stats[last.arg[i].sportsbook].avg_ev =
                 FMulInt(EvOfBet(last.arg[j]), 100)
          /\ last.res.stats.avg_ev.s > 0

\* C23 as stated: a record is counted in the day bucket of its time_settled,
\* or of its time_placed when time_settled is null, so that the bet counts
\* of a month's day buckets add up to the number of records whose bucketing
\* date falls in the month.
BucketDate(r) ==
    IF r.time_settled # NULL THEN DATE(r.time_settled) ELSE DATE(r.time_placed)

Bucketed(view, d) ==
    { id \in DOMAIN view : /\ view[id].time_settled # NULL \/ view[id].time_placed # NULL
                           /\ BucketDate(view[id]) = d }

InMonth(view, month) ==
    UNION { Bucketed(view, d) : d \in first_day(month)..last_day(month) }

MonthShown == resp.op = "calendar_month"

C23_Original ==
    MonthShown =>
        /\ resp.total_bets = Cardinality(InMonth(db, resp.month))
        /\ \A d \in first_day(resp.month)..last_day(resp.month) :
              Bucketed(db, d) # {} =>
                  /\ d \in DOMAIN resp.calendar_data
                  /\ resp.calendar_data[d].bet_count = Cardinality(Bucketed(db, d))

\* C24 as stated: after a source-A run and a source-B run with interleaved
\* rows, the table equals the one that running the two imports one after
\* the other leaves.
BothDone == \A p \in Procs : run[p].done

TwoSources == csv[1].src # csv[2].src

Content(table) ==
    [ r \in {table[id] : id \in DOMAIN table} |->
          Cardinality({ id \in DOMAIN table : table[id] = r }) ]

InsertedBy(p) ==
    { run[p].log[i].id : i \in { j \in 1..Len(run[p].log) : run[p].log[j].op = "inserted" } }

UpdatedBy(p) ==
    { run[p].log[i].id : i \in { j \in 1..Len(run[p].log) : run[p].log[j].op = "updated" } }

SameKey(a, b) ==
    /\ a.source = b.source
    /\ IF a.source = "pikkit" THEN a.original_bet_id = b.original_bet_id
       ELSE SameOddsjamKey(a, b)

C27_Original ==
    (BothDone /\ csv[1] = csv[2]) =>
        \A i, j \in DOMAIN db : SameKey(db[i], db[j]) => i = j
====
